---------------------------- MODULE Spec2Model ----------------------------
(***************************************************************************)
(* A model of the hybrid metadata search service: the hybrid dispatcher    *)
(* and score merger (search/hybrid_searcher.py), the in-memory engines     *)
(* (search/ac_matcher.py, search/similarity_matcher.py), the index         *)
(* lifecycle probes (api/search_api.py) and the background synchronisation *)
(* (indexing/scheduler.py).                                                *)
(*                                                                         *)
(* Scores are integers: an engine's raw score is an integer, a configured  *)
(* weight w is kept as 10*w, so a weighted score is kept as 10 times the   *)
(* product the code computes.  Only comparisons of scores are modelled.    *)
(***************************************************************************)
EXTENDS Integers, Sequences, FiniteSets, TLC

VARIABLES
    \* ---- HybridSearcher -------------------------------------------------
    weights,            \* HybridSearcher.config.weights (10 * weight)
    initialized,        \* HybridSearcher.initialized
    es_health,          \* "up" | "down": can the search service answer a fields query
    \* ---- ACMatcher and SimilarityMatcher --------------------------------
    automaton,          \* ACMatcher.automaton: [kind, words]
    ac_initialized,     \* ACMatcher.initialized
    sim_fields,         \* SimilarityMatcher.fields
    search_corpus,      \* SimilarityMatcher.search_corpus
    sim_initialized,    \* SimilarityMatcher.initialized
    \* ---- one initialize() call of an in-memory engine -------------------
    bpc,                \* position of the call
    bfields,            \* its argument fields
    bterms,             \* its local search_terms / the fields still to append
    ac_built,           \* the corpus of the last completed ACMatcher build, or NoCorpus
    sim_built,          \* the corpus of the last completed SimilarityMatcher build
    ac_answer,          \* the last ACMatcher.search_fields call and its response
    sim_seen,           \* the corpus the last SimilarityMatcher.search_fields call iterated
    sim_answer,         \* the last scored SimilarityMatcher.search_fields call and its response
    \* ---- one HybridSearcher.search call --------------------------------
    request,            \* the SearchRequest being served (search_method, size)
    spc,                \* position of the call: "idle" | "collect" | "done"
    pending,            \* futures submitted and not yet yielded by as_completed
    search_results,     \* _hybrid_search: search_results, in insertion order
    used_methods,       \* _hybrid_search: used_methods
    response,           \* the SearchResponse returned, or NoResponse
    \* ---- the search service's indices ----------------------------------
    fields_index,       \* the fields index: [exists, docs]
    dimension_index,    \* the dimension values index
    metric_index,       \* the metrics index
    \* ---- DataSyncScheduler ---------------------------------------------
    sync_lock,          \* DataSyncScheduler.sync_lock: its holder, or NoThread
    is_syncing,         \* DataSyncScheduler.is_syncing
    last_sync_status,   \* DataSyncScheduler.last_sync_status: its 'success', or "none"
    fields_data,        \* HybridSearcher.fields_data
    sync_pc,            \* position of each thread's sync_data call
    sync_force,         \* its argument force
    sync_results,       \* its local results, and what it returns
    sync_fields,        \* its local fields, loaded by _sync_metadata
    snapshot,           \* which indices were answerable when the running sync began
    \* ---- api/search_api.py: the module globals and the requests ---------
    hybrid_searcher,    \* _hybrid_searcher: the number of instances created (0: None)
    initialization_attempted,   \* _initialization_attempted
    data_sync_scheduler,        \* _data_sync_scheduler: the number of schedulers created
    loop_owner,         \* the request whose handler body occupies the event loop
    api_pc,             \* position of each request
    api_local,          \* its locals: caller of create_index_with_data, fields, success_count
    api_result,         \* what ensure_searcher_ready returned to it
    rebuilds,           \* create_index_with_data runs that went past the skip check
    cold_start,         \* the service started with the three indices absent
    create_succeeded,   \* a create_index_with_data(force_recreate=False) call returned success
    probe_found_all     \* the probe of get_hybrid_searcher found the three indices with data

hsVars == <<weights, initialized, es_health>>

engineVars == <<automaton, ac_initialized, sim_fields, search_corpus, sim_initialized>>

buildVars == <<bpc, bfields, bterms, ac_built, sim_built, ac_answer, sim_seen, sim_answer>>

callVars == <<request, spc, pending, search_results, used_methods, response>>

indexVars == <<fields_index, dimension_index, metric_index>>

syncVars == <<sync_lock, is_syncing, last_sync_status, fields_data,
              sync_pc, sync_force, sync_results, sync_fields, snapshot>>

lifeVars == <<hybrid_searcher, initialization_attempted, data_sync_scheduler, loop_owner,
              api_pc, api_local, api_result, rebuilds, cold_start,
              create_succeeded, probe_found_all>>

vars == <<hsVars, engineVars, buildVars, callVars, indexVars, syncVars, lifeVars>>

-----------------------------------------------------------------------------
(* Bounds of the model.                                                    *)
MaxHits == 1        \* results one engine returns for one query
MaxSize == 2        \* SearchRequest.size

-----------------------------------------------------------------------------
(* HybridSearcher.__init__: the engines dict, in insertion order.          *)
Engines == <<"elasticsearch", "ac_matcher", "similarity">>

EngineNames == {Engines[i] : i \in 1..Len(Engines)}

(* HybridSearchConfig.weights: the default, and a configuration that gives *)
(* no weight to ac_matcher and inverts the other two.                      *)
DefaultWeights == [elasticsearch |-> 10, ac_matcher |-> 9, similarity |-> 8]

WeightConfigs == {DefaultWeights, [elasticsearch |-> 5, similarity |-> 10]}

(* self.config.weights.get(engine_name, 1.0)                               *)
EngineWeight(w, engine_name) ==
    IF engine_name \in DOMAIN w THEN w[engine_name] ELSE 10

(* Entity identities (table_name, column_name).  Two of them share the     *)
(* text table_name + "_" + column_name.                                    *)
Identities == {<<"a", "b_c">>, <<"a_b", "c">>, <<"a", "c">>}

(* Raw scores an engine reports.  Under the default weights a raw 9 of     *)
(* elasticsearch ties with a raw 10 of ac_matcher; under the second        *)
(* configuration ac_matcher and similarity tie.                            *)
RawScores(engine_name) ==
    IF engine_name = "elasticsearch" THEN {9, 10} ELSE {10}

NoInfo == [original_score |-> 0, engine_weight |-> 0, weighted_score |-> 0]

(* core.models.SearchResult as an engine returns it.                       *)
Hit(id, s, engine_name) ==
    [table_name |-> id[1], column_name |-> id[2], score |-> s,
     search_method |-> engine_name, extra_info |-> NoInfo]

RECURSIVE SeqsUpTo(_, _)
SeqsUpTo(S, n) ==
    IF n = 0 THEN {<<>>}
    ELSE LET shorter == SeqsUpTo(S, n - 1)
         IN shorter \cup {Append(s, x) : s \in {t \in shorter : Len(t) = n - 1}, x \in S}

HitLists(engine_name) ==
    SeqsUpTo({Hit(id, s, engine_name) : id \in Identities, s \in RawScores(engine_name)},
             MaxHits)

(* core.models.SearchResponse: the fields a caller can tell responses by.  *)
SearchResponse(total, results, methods) ==
    [total |-> total, results |-> results, search_methods |-> methods]

NoResponse == [total |-> -1, results |-> <<>>, search_methods |-> <<>>]

(* HybridSearcher._empty_response                                          *)
EmptyResponse == SearchResponse(0, <<>>, <<>>)

-----------------------------------------------------------------------------
(* HybridSearcher._merge_search_results                                    *)

(* Mutant: the key also carries the engine that produced the result.       *)
field_key_per_engine(result) ==
    result.search_method \o "_" \o result.table_name \o "_" \o result.column_name

field_key(result) == result.table_name \o "_" \o result.column_name

KeyIndex(field_scores, key) ==
    IF \E i \in 1..Len(field_scores) : field_scores[i].key = key
    THEN CHOOSE i \in 1..Len(field_scores) : field_scores[i].key = key
    ELSE 0

(* Mutant: the first result recorded for a key is kept.                    *)
RECURSIVE CollectResultsKeepFirst(_, _, _, _)
CollectResultsKeepFirst(field_scores, engine_name, engine_weight, results) ==
    IF results = <<>> THEN field_scores
    ELSE LET result == Head(results)
             entry == [key |-> field_key(result), result |-> result,
                       score |-> result.score * engine_weight,
                       original_score |-> result.score, engine |-> engine_name,
                       weight |-> engine_weight]
         IN CollectResultsKeepFirst(IF KeyIndex(field_scores, field_key(result)) = 0
                                    THEN Append(field_scores, entry) ELSE field_scores,
                                    engine_name, engine_weight, Tail(results))

RECURSIVE CollectResults(_, _, _, _)
CollectResults(field_scores, engine_name, engine_weight, results) ==
    IF results = <<>> THEN field_scores
    ELSE LET result == Head(results)
             key == field_key(result)
             weighted_score == result.score * engine_weight
             i == KeyIndex(field_scores, key)
             entry == [key |-> key, result |-> result, score |-> weighted_score,
                       original_score |-> result.score, engine |-> engine_name,
                       weight |-> engine_weight]
             updated == IF i = 0 THEN Append(field_scores, entry)
                        ELSE IF weighted_score > field_scores[i].score
                             THEN [field_scores EXCEPT ![i] = entry]
                             ELSE field_scores
         IN CollectResults(updated, engine_name, engine_weight, Tail(results))

RECURSIVE CollectEngines(_, _, _)
CollectEngines(field_scores, w, results_by_engine) ==
    IF results_by_engine = <<>> THEN field_scores
    ELSE LET item == Head(results_by_engine)
             next == IF item.response.results = <<>> THEN field_scores
                     ELSE CollectResults(field_scores, item.engine,
                                         EngineWeight(w, item.engine),
                                         item.response.results)
         IN CollectEngines(next, w, Tail(results_by_engine))

(* The result of one field_scores entry, as rewritten at lines 287-300.    *)
ScoredResult(score_info) ==
    [score_info.result EXCEPT
        !.score = score_info.score,
        !.search_method = score_info.engine,
        !.extra_info = [original_score |-> score_info.original_score,
                        engine_weight |-> score_info.weight,
                        weighted_score |-> score_info.score]]

(* list.sort(key=score, reverse=True): stable, descending.                 *)
(* Mutant: the sort without reverse=True.                                  *)
RECURSIVE InsertByScoreAscending(_, _)
InsertByScoreAscending(sorted, x) ==
    IF sorted = <<>> THEN <<x>>
    ELSE IF Head(sorted).score <= x.score
         THEN <<Head(sorted)>> \o InsertByScoreAscending(Tail(sorted), x)
         ELSE <<x>> \o sorted

RECURSIVE InsertByScore(_, _)
InsertByScore(sorted, x) ==
    IF sorted = <<>> THEN <<x>>
    ELSE IF Head(sorted).score >= x.score
         THEN <<Head(sorted)>> \o InsertByScore(Tail(sorted), x)
         ELSE <<x>> \o sorted

RECURSIVE SortByScore(_)
SortByScore(s) ==
    IF s = <<>> THEN <<>>
    ELSE InsertByScore(SortByScore(SubSeq(s, 1, Len(s) - 1)), s[Len(s)])

merge_search_results(results_by_engine, w) ==
    LET field_scores == CollectEngines(<<>>, w, results_by_engine)
        all_results == [i \in 1..Len(field_scores) |-> ScoredResult(field_scores[i])]
    IN SortByScore(all_results)

(* merged_results[:request.size]                                           *)
Truncate(s, size) == SubSeq(s, 1, IF Len(s) < size THEN Len(s) ELSE size)

-----------------------------------------------------------------------------
(* Strings.  TLC evaluates Len, \o and SubSeq on strings.                  *)

LowerChar(c) == IF c = "A" THEN "a" ELSE IF c = "B" THEN "b" ELSE c

(* str.lower()                                                             *)
RECURSIVE Lower(_)
Lower(str) ==
    IF Len(str) = 0 THEN ""
    ELSE LowerChar(SubSeq(str, 1, 1)) \o Lower(SubSeq(str, 2, Len(str)))

(* m.startswith(q), m.endswith(q), q in m                                  *)
StartsWith(m, q) == Len(q) <= Len(m) /\ SubSeq(m, 1, Len(q)) = q

EndsWith(m, q) == Len(q) <= Len(m) /\ SubSeq(m, Len(m) - Len(q) + 1, Len(m)) = q

Contains(m, q) ==
    \E i \in 1..(Len(m) - Len(q) + 1) : SubSeq(m, i, i + Len(q) - 1) = q

(* str.split(): the maximal runs of non-blank characters.                  *)
RECURSIVE SplitFrom(_, _, _)
SplitFrom(str, i, word) ==
    IF i > Len(str) THEN (IF word = "" THEN <<>> ELSE <<word>>)
    ELSE IF SubSeq(str, i, i) = " "
         THEN (IF word = "" THEN <<>> ELSE <<word>>) \o SplitFrom(str, i + 1, "")
         ELSE SplitFrom(str, i + 1, word \o SubSeq(str, i, i))

Split(str) == SplitFrom(str, 1, "")

-----------------------------------------------------------------------------
(* Field objects.  ACMatcher and SimilarityMatcher read is_enabled,        *)
(* enum_values and is_entity of each field; core.models.MetadataField      *)
(* declares is_effect and none of the three, so reading them on a          *)
(* MetadataField raises AttributeError.  A field is a record whose domain  *)
(* is the set of attributes the object has.                                *)
EngineField(table, column, name, aliases, desc, enums, enabled) ==
    [table_name |-> table, column_name |-> column, chinese_name |-> name,
     alias |-> aliases, description |-> desc, enum_values |-> enums,
     sample_data |-> "", is_enabled |-> enabled, is_entity |-> TRUE]

MetadataField(table, column, name, aliases, desc, field_type, effect) ==
    [table_name |-> table, column_name |-> column, chinese_name |-> name,
     alias |-> aliases, description |-> desc, field_type |-> field_type,
     sample_data |-> "", is_effect |-> effect]

HasAttr(field, attr) == attr \in DOMAIN field

(* The fields corpora are made of: an entity named "ab"; one named "b"     *)
(* with the alias "ab"; one named "Ab" whose description and enum values   *)
(* contain "ab"; a disabled one named "b"; a MetadataField named "ab".     *)
FieldAb == EngineField("t1", "c1", "ab", <<>>, "", <<>>, TRUE)

FieldB == EngineField("t2", "c2", "b", <<"ab">>, "", <<>>, TRUE)

FieldOwn == EngineField("t2", "col", "Ab", <<>>, "x ab", <<"ab">>, TRUE)

FieldOff == EngineField("t1", "c4", "b", <<>>, "", <<>>, FALSE)

FieldMeta == MetadataField("t1", "c1", "ab", <<>>, "", "METRIC", TRUE)

FieldDim == MetadataField("t1", "d1", "b", <<>>, "", "DIMENSION", TRUE)

(* The corpora initialize() is called with.                                *)
Corpora ==
    { <<>>, <<FieldAb>>, <<FieldAb, FieldB>>, <<FieldB, FieldAb>>, <<FieldOwn>>,
      <<FieldOff, FieldB>>, <<FieldMeta>>, <<FieldOff, FieldMeta>> }

(* The corpus of the last completed build of an engine, if there is one.   *)
NoCorpus == [built |-> FALSE, fields |-> <<>>]

BuiltFrom(fields) == [built |-> TRUE, fields |-> fields]

-----------------------------------------------------------------------------
(* ACMatcher.initialize: the search_terms dictionary.                      *)

Term(text, match_type, field) ==
    [term |-> Lower(text),
     info |-> [field |-> field, match_type |-> match_type, original_text |-> text]]

TermsOf(texts, match_type, field, min_len) ==
    LET kept == SelectSeq(texts, LAMBDA t : Len(t) >= min_len)
    IN [i \in 1..Len(kept) |-> Term(kept[i], match_type, field)]

(* The assignments to search_terms one enabled field makes, in order.      *)
FieldTerms(field) ==
    TermsOf(<<field.chinese_name>>, "chinese_name", field, 1)
    \o TermsOf(field.alias, "alias", field, 1)
    \o TermsOf(<<field.column_name>>, "column_name", field, 3)
    \o TermsOf(Split(field.description), "description", field, 2)
    \o TermsOf(field.enum_values, "enum_value", field, 2)

TermIndex(search_terms, term) ==
    IF \E i \in 1..Len(search_terms) : search_terms[i].term = term
    THEN CHOOSE i \in 1..Len(search_terms) : search_terms[i].term = term
    ELSE 0

(* search_terms[term] = info: a term already present is overwritten.       *)
RECURSIVE PutTerms(_, _)
PutTerms(search_terms, new_terms) ==
    IF new_terms = <<>> THEN search_terms
    ELSE LET t == Head(new_terms)
             i == TermIndex(search_terms, t.term)
         IN PutTerms(IF i = 0 THEN Append(search_terms, t)
                     ELSE [search_terms EXCEPT ![i] = t],
                     Tail(new_terms))

RECURSIVE BuildSearchTerms(_, _)
BuildSearchTerms(search_terms, fields) ==
    IF fields = <<>> THEN search_terms
    ELSE LET field == Head(fields)
         IN BuildSearchTerms(IF field.is_enabled
                             THEN PutTerms(search_terms, FieldTerms(field))
                             ELSE search_terms,
                             Tail(fields))

(* The loop over fields raises AttributeError at the first field without   *)
(* is_enabled, or the first enabled field without enum_values.             *)
InitializeRaises(fields) ==
    \E i \in 1..Len(fields) :
        \/ ~HasAttr(fields[i], "is_enabled")
        \/ fields[i].is_enabled /\ ~HasAttr(fields[i], "enum_values")

NoAutomaton == [kind |-> "none", words |-> <<>>]

(* ahocorasick.Automaton()                                                 *)
EmptyAutomaton == [kind |-> "empty", words |-> <<>>]

(* Automaton.add_word                                                      *)
AddWord(a, word) == [kind |-> "trie", words |-> Append(a.words, word)]

(* Automaton.make_automaton: a trie becomes an automaton.                  *)
MakeAutomaton(a) == IF a.kind = "trie" THEN [a EXCEPT !.kind = "automaton"] ELSE a

RECURSIVE AddWords(_, _)
AddWords(a, words) ==
    IF words = <<>> THEN a ELSE AddWords(AddWord(a, Head(words)), Tail(words))

(* The automaton a completed initialize(fields) leaves.                    *)
BuiltAutomaton(fields) == MakeAutomaton(AddWords(EmptyAutomaton, BuildSearchTerms(<<>>, fields)))

-----------------------------------------------------------------------------
(* ACMatcher._calculate_score, in thousandths.                             *)

TypeWeight(match_type) ==
    CASE match_type = "chinese_name" -> 20
      [] match_type = "alias"        -> 18
      [] match_type = "column_name"  -> 15
      [] match_type = "enum_value"   -> 13
      [] match_type = "description"  -> 10
      [] OTHER                       -> 10

ExactBonus(query_lower, matched_lower) ==
    IF query_lower = matched_lower THEN 20
    ELSE IF StartsWith(matched_lower, query_lower) \/ EndsWith(matched_lower, query_lower)
         THEN 15
    ELSE IF Contains(matched_lower, query_lower) THEN 12
    ELSE 10

Min(a, b) == IF a < b THEN a ELSE b

Max(a, b) == IF a < b THEN b ELSE a

(* weight * exact_bonus * (1 + (min/max - 0.5) * 0.5), rounded to three    *)
(* decimals: with weight and bonus kept tenfold, the thousandths are       *)
(* weight * bonus * (3 max + 2 min) * 10 / (4 max).                        *)
calculate_score(query, matched_text, match_type) ==
    LET lo == Min(Len(query), Len(matched_text))
        hi == Max(Len(query), Len(matched_text))
        num == TypeWeight(match_type) * ExactBonus(Lower(query), Lower(matched_text))
                 * (3 * hi + 2 * lo) * 10
        den == 4 * hi
    IN (2 * num + den) \div (2 * den)

-----------------------------------------------------------------------------
(* ACMatcher.search_fields                                                 *)

(* A table filter: None, one name, or a list of names.                     *)
NoTable == [kind |-> "none", names |-> <<>>]

OneTable(name) == [kind |-> "str", names |-> <<name>>]

TableList(names) == [kind |-> "list", names |-> names]

(* The filter of lines 143-150: a falsy table_name filters nothing.        *)
ACTablePasses(field, table_name) ==
    CASE table_name.kind = "none" -> TRUE
      [] table_name.kind = "str"  ->
            table_name.names[1] = "" \/ field.table_name = table_name.names[1]
      [] table_name.kind = "list" ->
            table_name.names = <<>>
            \/ \E i \in 1..Len(table_name.names) : field.table_name = table_name.names[i]

(* Automaton.iter at one end position: the words that end there, the       *)
(* longest first.                                                          *)
RECURSIVE LongestFirst(_, _)
LongestFirst(words, idxs) ==
    IF idxs = {} THEN <<>>
    ELSE LET i == CHOOSE i \in idxs : \A j \in idxs : Len(words[j].term) <= Len(words[i].term)
         IN <<words[i]>> \o LongestFirst(words, idxs \ {i})

WordsEndingAt(words, query_lower, end) ==
    LongestFirst(words, {i \in 1..Len(words) :
                            /\ Len(words[i].term) <= end
                            /\ SubSeq(query_lower, end - Len(words[i].term) + 1, end)
                                   = words[i].term})

RECURSIVE IterFrom(_, _, _)
IterFrom(words, query_lower, end) ==
    IF end > Len(query_lower) THEN <<>>
    ELSE WordsEndingAt(words, query_lower, end) \o IterFrom(words, query_lower, end + 1)

(* Lines 138-168: the matches that pass the filters, scored.               *)
ACMatches(words, query, table_name, entity_only, enabled_only) ==
    LET found == IterFrom(words, Lower(query), 1)
        kept == SelectSeq(found, LAMBDA w :
                    /\ ACTablePasses(w.info.field, table_name)
                    /\ ~(entity_only /\ ~w.info.field.is_entity)
                    /\ ~(enabled_only /\ ~w.info.field.is_enabled))
    IN [i \in 1..Len(kept) |->
           [field |-> kept[i].info.field,
            score |-> calculate_score(query, kept[i].info.original_text,
                                      kept[i].info.match_type),
            match_type |-> kept[i].info.match_type,
            matched_text |-> kept[i].info.original_text]]

ac_field_key(field) == field.table_name \o "_" \o field.column_name

MatchIndex(unique_matches, key) ==
    IF \E i \in 1..Len(unique_matches) : ac_field_key(unique_matches[i].field) = key
    THEN CHOOSE i \in 1..Len(unique_matches) : ac_field_key(unique_matches[i].field) = key
    ELSE 0

(* Lines 170-175: one match per field key, the first of the best score.    *)
RECURSIVE UniqueMatches(_, _)
UniqueMatches(unique_matches, matches) ==
    IF matches = <<>> THEN unique_matches
    ELSE LET match == Head(matches)
             i == MatchIndex(unique_matches, ac_field_key(match.field))
             updated == IF i = 0 THEN Append(unique_matches, match)
                        ELSE IF match.score > unique_matches[i].score
                             THEN [unique_matches EXCEPT ![i] = match]
                             ELSE unique_matches
         IN UniqueMatches(updated, Tail(matches))

ACResult(match) ==
    [table_name |-> match.field.table_name, column_name |-> match.field.column_name,
     score |-> match.score, search_method |-> "ac_matcher", extra_info |-> NoInfo,
     match_type |-> match.match_type, matched_text |-> match.matched_text]

ACNotReady == SearchResponse(0, <<>>, <<"ac_matcher">>)

(* ACMatcher.search_fields on the matcher's current state.  An automaton   *)
(* with no word is falsy; iter() on a trie that make_automaton has not     *)
(* finished raises, which search_fields catches.                           *)
ac_search_fields(a, is_initialized, query, table_name, size) ==
    IF ~is_initialized \/ a.kind = "none" \/ a.words = <<>> THEN ACNotReady
    ELSE IF a.kind # "automaton" THEN ACNotReady
    ELSE LET unique_matches == UniqueMatches(<<>>, ACMatches(a.words, query, table_name,
                                                             FALSE, TRUE))
             sorted_matches == SortByScore(unique_matches)
             limited_matches == Truncate(sorted_matches, size)
         IN SearchResponse(Len(unique_matches),
                           [i \in 1..Len(limited_matches) |-> ACResult(limited_matches[i])],
                           <<"ac_matcher">>)

-----------------------------------------------------------------------------
(* SimilarityMatcher.initialize: the search corpus.                        *)

RECURSIVE Join(_)
Join(texts) ==
    IF texts = <<>> THEN ""
    ELSE IF Len(texts) = 1 THEN texts[1]
    ELSE texts[1] \o " " \o Join(Tail(texts))

NonEmpty(texts) == SelectSeq(texts, LAMBDA t : t # "")

(* Lines 38-56: the searchable texts of one field.                         *)
SearchableTexts(field) ==
    NonEmpty(<<field.chinese_name>>) \o field.alias \o NonEmpty(<<field.description>>)
    \o NonEmpty(<<field.column_name>>) \o NonEmpty(field.enum_values)
    \o NonEmpty(<<field.sample_data>>)

CorpusItem(field) ==
    [field |-> field, text |-> Lower(Join(SearchableTexts(field))),
     searchable_texts |-> SearchableTexts(field)]

(* [field for field in fields if field.is_enabled]                         *)
EnabledFields(fields) == SelectSeq(fields, LAMBDA field : field.is_enabled)

(* The search_corpus a completed initialize(fields) leaves.                *)
BuiltCorpus(fields) ==
    LET enabled == EnabledFields(fields)
    IN [i \in 1..Len(enabled) |-> CorpusItem(enabled[i])]

-----------------------------------------------------------------------------
(* SimilarityMatcher._calculate_similarity and search_fields.  A score is  *)
(* the exact fraction n/d of the float the code computes; fractions are    *)
(* compared by cross-multiplication.                                       *)

Rat(n, d) == [n |-> n, d |-> d]

RatGreater(x, y) == x.n * y.d > y.n * x.d

RatTimes(x, y) == Rat(x.n * y.n, x.d * y.d)

(* The length of the longest run on which a[i..] and b[j..] agree.         *)
RECURSIVE CommonLen(_, _, _, _)
CommonLen(a, i, b, j) ==
    IF i > Len(a) \/ j > Len(b) \/ SubSeq(a, i, i) # SubSeq(b, j, j) THEN 0
    ELSE 1 + CommonLen(a, i + 1, b, j + 1)

(* The runs on which a and b agree: <<start in a, start in b, length>>.    *)
Runs(a, b) == {<<i, j, CommonLen(a, i, b, j)>> : i \in 1..Len(a), j \in 1..Len(b)}

(* Of the longest runs, the one that starts earliest in a and then in b.   *)
FirstLongest(runs) ==
    CHOOSE run \in runs :
        \A other \in runs :
            \/ other[3] < run[3]
            \/ other[3] = run[3] /\ run[1] < other[1]
            \/ other[3] = run[3] /\ run[1] = other[1] /\ run[2] <= other[2]

NoMatch == [i |-> 0, j |-> 0, size |-> 0]

MatchOf(run) == [i |-> run[1], j |-> run[2], size |-> run[3]]

LongestIn(runs) == IF runs = {} THEN NoMatch ELSE MatchOf(FirstLongest(runs))

(* difflib.SequenceMatcher.find_longest_match with no junk: the longest    *)
(* matching block, the one that starts earliest in a and then in b.        *)
LongestMatch(a, b) == LongestIn(Runs(a, b))

(* get_matching_blocks: the sizes of the longest match and, recursively,   *)
(* of the matches to its left and to its right.                            *)
RECURSIVE MatchingChars(_, _)
RECURSIVE CharsAround(_, _, _)
CharsAround(a, b, m) ==
    IF m.size = 0 THEN 0
    ELSE m.size
         + MatchingChars(SubSeq(a, 1, m.i - 1), SubSeq(b, 1, m.j - 1))
         + MatchingChars(SubSeq(a, m.i + m.size, Len(a)), SubSeq(b, m.j + m.size, Len(b)))

MatchingChars(a, b) == CharsAround(a, b, LongestMatch(a, b))

(* SequenceMatcher(None, a, b).ratio(): 2.0 * matches / length, or 1.0.    *)
Ratio(a, b) ==
    IF Len(a) + Len(b) = 0 THEN Rat(1, 1)
    ELSE Rat(2 * MatchingChars(a, b), Len(a) + Len(b))

(* Lines 207-213: the similarity of the query to one searchable text.      *)
TextSimilarity(query, text_lower) ==
    IF query = text_lower THEN Rat(1, 1)
    ELSE IF Contains(text_lower, query) \/ Contains(query, text_lower) THEN Rat(9, 10)
    ELSE Ratio(query, text_lower)

(* Mutant: the similarity is scaled by the length ratio itself.            *)
LengthFactorIsRatio(query, text) ==
    Rat(Min(Len(query), Len(text)), Max(Len(query), Len(text)))

(* Lines 216-217: 0.7 + 0.3 * length_ratio.                                *)
LengthFactor(query, text) ==
    Rat(7 * Max(Len(query), Len(text)) + 3 * Min(Len(query), Len(text)),
        10 * Max(Len(query), Len(text)))

(* _simple_tokenize on text without punctuation and without CJK            *)
(* characters: the words of more than one character.                       *)
simple_tokenize(text) ==
    SelectSeq(Split(Lower(text)), LAMBDA word : Len(word) > 1)

(* set(words)                                                              *)
SetOf(words) == {words[i] : i \in 1..Len(words)}

(* Lines 224-240: the Jaccard overlap of the two token sets; zero stands   *)
(* for the cases in which it is not computed.                              *)
JaccardOf(query_set, field_set) ==
    IF query_set = {} \/ field_set = {} THEN Rat(0, 1)
    ELSE Rat(Cardinality(query_set \cap field_set), Cardinality(query_set \cup field_set))

Jaccard(query, field_text) ==
    JaccardOf(SetOf(simple_tokenize(query)), SetOf(simple_tokenize(field_text)))

(* `if x > max_similarity: max_similarity = x`                             *)
RatMax(max_similarity, x) == IF RatGreater(x, max_similarity) THEN x ELSE max_similarity

(* Lines 204-220: the running maximum over the searchable texts; a text    *)
(* replaces the maximum only when it is strictly greater.                  *)
RECURSIVE MaxOverTexts(_, _, _)
MaxOverTexts(max_similarity, query, texts) ==
    IF texts = <<>> THEN max_similarity
    ELSE MaxOverTexts(IF Head(texts) = "" THEN max_similarity
                      ELSE RatMax(max_similarity,
                                  RatTimes(TextSimilarity(query, Lower(Head(texts))),
                                           LengthFactor(query, Head(texts)))),
                      query, Tail(texts))

(* Lines 222-240: the token overlap replaces the maximum when tokenization *)
(* is on and it is strictly greater.                                       *)
WithTokens(max_similarity, jaccard_similarity, use_tokenization) ==
    IF use_tokenization THEN RatMax(max_similarity, jaccard_similarity) ELSE max_similarity

(* _calculate_similarity: the score (the first element of the tuple).      *)
calculate_similarity(query, field_text, searchable_texts, use_tokenization) ==
    WithTokens(MaxOverTexts(RatMax(Rat(0, 1), Ratio(query, field_text)),
                            query, searchable_texts),
               Jaccard(query, field_text), use_tokenization)

(* similarity_matcher.py 110: `table_name and field.table_name !=          *)
(* table_name`; a non-empty list never equals the field's table name.      *)
SimTablePasses(field, table_name) ==
    CASE table_name.kind = "none" -> TRUE
      [] table_name.kind = "str"  ->
            table_name.names[1] = "" \/ field.table_name = table_name.names[1]
      [] table_name.kind = "list" -> table_name.names = <<>>

(* similarity_matcher.py 125: similarity_score > 0.1                       *)
AboveFloor(score) == RatGreater(score, Rat(1, 10))

(* Lines 105-131: the corpus items that pass the filters, scored, of which *)
(* those above the floor are kept.                                         *)
SimMatches(corpus, query, table_name, entity_only, enabled_only, use_tokenization) ==
    LET passed == SelectSeq(corpus, LAMBDA item :
                      /\ SimTablePasses(item.field, table_name)
                      /\ ~(entity_only /\ ~item.field.is_entity)
                      /\ ~(enabled_only /\ ~item.field.is_enabled))
        scored == [i \in 1..Len(passed) |->
                      [field |-> passed[i].field,
                       score |-> calculate_similarity(Lower(query), passed[i].text,
                                                      passed[i].searchable_texts,
                                                      use_tokenization)]]
    IN SelectSeq(scored, LAMBDA match : AboveFloor(match.score))

(* matches.sort(key=score, reverse=True): stable, the greater score first. *)
RECURSIVE InsertBySimilarity(_, _)
InsertBySimilarity(sorted, x) ==
    IF sorted = <<>> THEN <<x>>
    ELSE IF ~RatGreater(x.score, Head(sorted).score)
         THEN <<Head(sorted)>> \o InsertBySimilarity(Tail(sorted), x)
         ELSE <<x>> \o sorted

RECURSIVE SortBySimilarity(_)
SortBySimilarity(s) ==
    IF s = <<>> THEN <<>>
    ELSE InsertBySimilarity(SortBySimilarity(SubSeq(s, 1, Len(s) - 1)), s[Len(s)])

SimResult(match) ==
    [table_name |-> match.field.table_name, column_name |-> match.field.column_name,
     score |-> match.score, search_method |-> "similarity", extra_info |-> NoInfo]

(* SimilarityMatcher.search_fields on the matcher's current state.         *)
sim_search_fields(corpus, is_initialized, query, table_name, size, use_tokenization) ==
    IF ~is_initialized THEN SearchResponse(0, <<>>, <<"similarity">>)
    ELSE LET matches == SortBySimilarity(SimMatches(corpus, query, table_name, FALSE, TRUE,
                                                    use_tokenization))
             limited_matches == Truncate(matches, size)
         IN SearchResponse(Len(matches),
                           [i \in 1..Len(limited_matches) |-> SimResult(limited_matches[i])],
                           <<"similarity">>)

-----------------------------------------------------------------------------
(* One rebuild of the in-memory engines: ACMatcher.initialize(fields),     *)
(* then SimilarityMatcher.initialize(fields), as HybridSearcher.initialize *)
(* and DataSyncScheduler._sync_metadata call them.  Each action is one     *)
(* statement (or one loop iteration) of the two methods, so that a search  *)
(* of another thread can run between any two of them.                      *)

(* ac_matcher.py 32-33: self.automaton = ahocorasick.Automaton()           *)
BeginRebuild(fields) ==
    /\ bpc = "idle"
    /\ bfields' = fields
    /\ automaton' = EmptyAutomaton
    /\ bpc' = "ac_terms"
    /\ UNCHANGED <<ac_initialized, sim_fields, search_corpus, sim_initialized>>
    /\ UNCHANGED <<bterms, ac_built, sim_built, ac_answer, sim_seen, sim_answer>>
    /\ UNCHANGED <<hsVars, callVars, lifeVars>>

(* A rebuild called on the engines alone.                                  *)
Rebuild(fields) == BeginRebuild(fields) /\ UNCHANGED <<indexVars, syncVars>>

(* ac_matcher.py 36-87: the loop that fills search_terms, or the except    *)
(* branch of lines 100-103 when a field lacks an attribute.                *)
ACTerms ==
    /\ bpc = "ac_terms"
    /\ IF InitializeRaises(bfields)
       THEN /\ ac_initialized' = FALSE
            /\ ac_built' = NoCorpus
            /\ bpc' = "sim_begin"
            /\ UNCHANGED bterms
       ELSE /\ bterms' = BuildSearchTerms(<<>>, bfields)
            /\ bpc' = "ac_add"
            /\ UNCHANGED <<ac_initialized, ac_built>>
    /\ UNCHANGED <<automaton, sim_fields, search_corpus, sim_initialized>>
    /\ UNCHANGED <<bfields, sim_built, ac_answer, sim_seen, sim_answer>>
    /\ UNCHANGED <<hsVars, callVars, indexVars, syncVars, lifeVars>>

(* ac_matcher.py 90-91: one add_word.                                      *)
ACAddWord ==
    /\ bpc = "ac_add"
    /\ bterms # <<>>
    /\ automaton' = AddWord(automaton, Head(bterms))
    /\ bterms' = Tail(bterms)
    /\ UNCHANGED <<ac_initialized, sim_fields, search_corpus, sim_initialized>>
    /\ UNCHANGED <<bpc, bfields, ac_built, sim_built, ac_answer, sim_seen, sim_answer>>
    /\ UNCHANGED <<hsVars, callVars, indexVars, syncVars, lifeVars>>

(* ac_matcher.py 94: make_automaton.                                       *)
ACMake ==
    /\ bpc = "ac_add"
    /\ bterms = <<>>
    /\ automaton' = MakeAutomaton(automaton)
    /\ bpc' = "ac_set"
    /\ UNCHANGED <<ac_initialized, sim_fields, search_corpus, sim_initialized>>
    /\ UNCHANGED <<bfields, bterms, ac_built, sim_built, ac_answer, sim_seen, sim_answer>>
    /\ UNCHANGED <<hsVars, callVars, indexVars, syncVars, lifeVars>>

(* ac_matcher.py 95-98: self.initialized = True; return True.              *)
ACFinish ==
    /\ bpc = "ac_set"
    /\ ac_initialized' = TRUE
    /\ ac_built' = BuiltFrom(bfields)
    /\ bpc' = "sim_begin"
    /\ UNCHANGED <<automaton, sim_fields, search_corpus, sim_initialized>>
    /\ UNCHANGED <<bfields, bterms, sim_built, ac_answer, sim_seen, sim_answer>>
    /\ UNCHANGED <<hsVars, callVars, indexVars, syncVars, lifeVars>>

(* similarity_matcher.py 32: self.fields = [enabled fields], or the except *)
(* branch of lines 71-74 when a field has no is_enabled.                   *)
SimBegin ==
    /\ bpc = "sim_begin"
    /\ IF \E i \in 1..Len(bfields) : ~HasAttr(bfields[i], "is_enabled")
       THEN /\ sim_initialized' = FALSE
            /\ sim_built' = NoCorpus
            /\ bpc' = "idle"
            /\ UNCHANGED sim_fields
       ELSE /\ sim_fields' = EnabledFields(bfields)
            /\ bpc' = "sim_reset"
            /\ UNCHANGED <<sim_initialized, sim_built>>
    /\ UNCHANGED <<automaton, ac_initialized, search_corpus>>
    /\ UNCHANGED <<bfields, bterms, ac_built, ac_answer, sim_seen, sim_answer>>
    /\ UNCHANGED <<hsVars, callVars, indexVars, syncVars, lifeVars>>

(* Mutant: the corpus of the previous build is kept and appended to.       *)
SimResetKeepsCorpus ==
    /\ bpc = "sim_reset"
    /\ bterms' = sim_fields
    /\ bpc' = "sim_append"
    /\ UNCHANGED <<automaton, ac_initialized, sim_fields, search_corpus, sim_initialized>>
    /\ UNCHANGED <<bfields, ac_built, sim_built, ac_answer, sim_seen, sim_answer>>
    /\ UNCHANGED <<hsVars, callVars, indexVars, syncVars, lifeVars>>

(* similarity_matcher.py 33: self.search_corpus = []                       *)
SimReset ==
    /\ bpc = "sim_reset"
    /\ search_corpus' = <<>>
    /\ bterms' = sim_fields
    /\ bpc' = "sim_append"
    /\ UNCHANGED <<automaton, ac_initialized, sim_fields, sim_initialized>>
    /\ UNCHANGED <<bfields, ac_built, sim_built, ac_answer, sim_seen, sim_answer>>
    /\ UNCHANGED <<hsVars, callVars, indexVars, syncVars, lifeVars>>

(* similarity_matcher.py 36-65: one iteration of the loop over             *)
(* self.fields, which appends one item to self.search_corpus.              *)
SimAppend ==
    /\ bpc = "sim_append"
    /\ bterms # <<>>
    /\ LET field == Head(bterms)
       IN IF ~HasAttr(field, "enum_values") \/ ~HasAttr(field, "sample_data")
          THEN /\ sim_initialized' = FALSE
               /\ sim_built' = NoCorpus
               /\ bpc' = "idle"
               /\ UNCHANGED <<search_corpus, bterms>>
          ELSE /\ search_corpus' = Append(search_corpus, CorpusItem(field))
               /\ bterms' = Tail(bterms)
               /\ UNCHANGED <<sim_initialized, sim_built, bpc>>
    /\ UNCHANGED <<automaton, ac_initialized, sim_fields>>
    /\ UNCHANGED <<bfields, ac_built, ac_answer, sim_seen, sim_answer>>
    /\ UNCHANGED <<hsVars, callVars, indexVars, syncVars, lifeVars>>

(* similarity_matcher.py 67-69: self.initialized = True; return True.      *)
SimFinish ==
    /\ bpc = "sim_append"
    /\ bterms = <<>>
    /\ sim_initialized' = TRUE
    /\ sim_built' = BuiltFrom(bfields)
    /\ bpc' = "idle"
    /\ UNCHANGED <<automaton, ac_initialized, sim_fields, search_corpus>>
    /\ UNCHANGED <<bfields, bterms, ac_built, ac_answer, sim_seen, sim_answer>>
    /\ UNCHANGED <<hsVars, callVars, indexVars, syncVars, lifeVars>>

-----------------------------------------------------------------------------
(* Calls of search_fields on the in-memory engines, from any thread.       *)

Queries == {"ab", "Ab", "b", "xab"}

TableFilters == {NoTable, OneTable("t2"), TableList(<<"t1">>)}

(* SearchRequest.size: one result, or the default of search_fields.        *)
EngineSizes == {1, 10}

NoAnswer == [query |-> "", table_name |-> NoTable, size |-> 0, response |-> NoResponse]

NoScan == [called |-> FALSE, ready |-> FALSE, items |-> <<>>]

NoSimAnswer ==
    [query |-> "", table_name |-> NoTable, size |-> 0, use_tokenization |-> FALSE,
     response |-> NoResponse]

(* ACMatcher.search_fields(query, table_name, size=size): the call and     *)
(* the response it returns on the matcher's state at that moment.          *)
ACSearch(query, table_name, size) ==
    /\ ac_answer' = [query |-> query, table_name |-> table_name, size |-> size,
                     response |-> ac_search_fields(automaton, ac_initialized,
                                                   query, table_name, size)]
    /\ sim_seen' = NoScan
    /\ sim_answer' = NoSimAnswer
    /\ UNCHANGED <<bpc, bfields, bterms, ac_built, sim_built>>
    /\ UNCHANGED <<hsVars, engineVars, callVars, indexVars, syncVars, lifeVars>>

(* SimilarityMatcher.search_fields: the gate on self.initialized and the   *)
(* corpus items the loop of lines 105-130 iterates.  The response is a     *)
(* function of these items and of the arguments.                           *)
SimSearch ==
    /\ sim_seen' = [called |-> TRUE, ready |-> sim_initialized,
                    items |-> IF sim_initialized THEN search_corpus ELSE <<>>]
    /\ ac_answer' = NoAnswer
    /\ sim_answer' = NoSimAnswer
    /\ UNCHANGED <<bpc, bfields, bterms, ac_built, sim_built>>
    /\ UNCHANGED <<hsVars, engineVars, callVars, indexVars, syncVars, lifeVars>>

(* SimilarityMatcher.search_fields(query, table_name, size=size,           *)
(* use_tokenization=...): the call and the scored response it returns on   *)
(* the matcher's state at that moment.                                     *)
SimilaritySearch(query, table_name, size, use_tokenization) ==
    /\ sim_answer' = [query |-> query, table_name |-> table_name, size |-> size,
                      use_tokenization |-> use_tokenization,
                      response |-> sim_search_fields(search_corpus, sim_initialized, query,
                                                     table_name, size, use_tokenization)]
    /\ ac_answer' = NoAnswer
    /\ sim_seen' = NoScan
    /\ UNCHANGED <<bpc, bfields, bterms, ac_built, sim_built>>
    /\ UNCHANGED <<hsVars, engineVars, callVars, indexVars, syncVars, lifeVars>>

-----------------------------------------------------------------------------
(* The indices of the search service and the state of the scheduler.       *)

(* An index: whether it exists, and the ids of its documents.              *)
MissingIndex == [exists |-> FALSE, docs |-> {}]

(* es.indices.create: a new index has no document.                         *)
CreatedIndex == [exists |-> TRUE, docs |-> {}]

LoadedIndex(docs) == [exists |-> TRUE, docs |-> docs]

(* helpers.bulk: the documents that were indexed are added.                *)
BulkInto(index, docs) == [index EXCEPT !.docs = @ \cup docs]

(* The data of the previous synchronisation.                               *)
OldFieldDocs == {"t1_c1"}

OldDimensionDocs == {"v1"}

OldMetricDocs == {"m1"}

(* The three indices as a completed synchronisation left them.             *)
IndicesLoaded ==
    /\ fields_index = LoadedIndex(OldFieldDocs)
    /\ dimension_index = LoadedIndex(OldDimensionDocs)
    /\ metric_index = LoadedIndex(OldMetricDocs)

SyncThreads == {"s1", "s2"}

NoThread == "none"

(* sync_data, lines 162-169: results as the sync body starts.  errors      *)
(* holds the sub-syncs the appended messages name.                         *)
NewResults ==
    [success |-> TRUE, message |-> "", metadata |-> "none",
     dimension_values |-> "none", metrics |-> "none", fields_indexed |-> 0,
     errors |-> {}]

(* Mutant: a call that is turned away reports success.                     *)
RejectedAsSuccess(message) == [NewResults EXCEPT !.message = message]

(* sync_data, lines 141-145 and 150-154: the dict of a call that is        *)
(* turned away.                                                            *)
Rejected(message) == [NewResults EXCEPT !.success = FALSE, !.message = message]

(* An index a search can answer from: it exists and holds documents.       *)
Answerable(index) == index.exists /\ index.docs # {}

(* Which of the three indices a search can answer from.                    *)
IndexSnapshot ==
    [fields |-> Answerable(fields_index),
     dimension_values |-> Answerable(dimension_index),
     metrics |-> Answerable(metric_index)]

NoSnapshot == [fields |-> FALSE, dimension_values |-> FALSE, metrics |-> FALSE]

(* DataSyncScheduler.__init__, with no sync_data call in progress.         *)
SchedulerAtRest ==
    /\ sync_lock = NoThread
    /\ is_syncing = FALSE
    /\ last_sync_status = "none"
    /\ fields_data = <<>>
    /\ sync_pc = [t \in SyncThreads |-> "idle"]
    /\ sync_force = [t \in SyncThreads |-> FALSE]
    /\ sync_results = [t \in SyncThreads |-> NewResults]
    /\ sync_fields = [t \in SyncThreads |-> <<>>]
    /\ snapshot = NoSnapshot

(* api/search_api.py, the module globals as a served process has them     *)
(* once its searcher and scheduler exist, with no request in progress.     *)
RequestThreads == {"r1", "r2"}

NoLocals == [caller |-> "none", fields |-> <<>>, success_count |-> 0, force |-> FALSE]

NoRequests ==
    /\ loop_owner = NoThread
    /\ api_pc = [t \in RequestThreads |-> "idle"]
    /\ api_local = [t \in RequestThreads |-> NoLocals]
    /\ api_result = [t \in RequestThreads |-> "none"]
    /\ rebuilds = 0

ApiAtRest ==
    /\ hybrid_searcher = 1
    /\ initialization_attempted = TRUE
    /\ data_sync_scheduler = 1
    /\ cold_start = FALSE
    /\ create_succeeded = FALSE
    /\ probe_found_all = FALSE
    /\ NoRequests

-----------------------------------------------------------------------------
(* What an engine's search_fields returns.  Each engine catches its own    *)
(* failures and answers with an empty SearchResponse that names it:        *)
(* ElasticsearchEngine.search_fields (index missing, service down),        *)
(* ACMatcher.search_fields and SimilarityMatcher.search_fields (not        *)
(* initialized).                                                           *)
EngineReady(engine_name) ==
    CASE engine_name = "elasticsearch" -> es_health = "up"
      [] engine_name = "ac_matcher"    ->
            ac_initialized /\ automaton.kind = "automaton" /\ automaton.words # <<>>
      [] engine_name = "similarity"    -> sim_initialized

EngineAnswers(engine_name) ==
    IF EngineReady(engine_name)
    THEN {SearchResponse(Len(hits), hits, <<engine_name>>) : hits \in HitLists(engine_name)}
    ELSE {SearchResponse(0, <<>>, <<engine_name>>)}

(* ElasticsearchEngine.search_dimension_values                             *)
DimensionAnswers ==
    IF es_health = "up"
    THEN {SearchResponse(Len(hits), hits, <<"dimension_values">>) :
              hits \in HitLists("dimension_values")}
    ELSE {SearchResponse(0, <<>>, <<"dimension_values">>)}

SearchMethods == EngineNames \cup {"hybrid", "dimension_values", "unsupported"}

Sizes == 1..MaxSize

(* HybridSearcher.search: the gate on initialized and the choice of the    *)
(* strategy.  A hybrid search submits one future per engine; the others    *)
(* answer in the call itself.                                              *)
SearchCall(method, size) ==
    /\ spc = "idle"
    /\ request' = [search_method |-> method, size |-> size]
    /\ IF ~initialized
       THEN /\ response' = SearchResponse(0, <<>>, <<>>)
            /\ spc' = "done"
            /\ UNCHANGED pending
       ELSE IF method = "hybrid"
       THEN /\ pending' = EngineNames
            /\ spc' = "collect"
            /\ UNCHANGED response
       ELSE IF method = "dimension_values"
       THEN /\ response' \in DimensionAnswers
            /\ spc' = "done"
            /\ UNCHANGED pending
       ELSE IF method \in EngineNames
       THEN /\ response' \in {[r EXCEPT !.results = Truncate(r.results, size)] :
                                  r \in EngineAnswers(method)}
            /\ spc' = "done"
            /\ UNCHANGED pending
       ELSE /\ response' = EmptyResponse
            /\ spc' = "done"
            /\ UNCHANGED pending
    /\ UNCHANGED <<search_results, used_methods>>
    /\ UNCHANGED <<hsVars, engineVars, buildVars, indexVars, syncVars, lifeVars>>

(* _hybrid_search, lines 176-183: as_completed yields a finished future    *)
(* and its result is recorded.                                             *)
EngineComplete(engine_name) ==
    /\ spc = "collect"
    /\ engine_name \in pending
    /\ \E result \in EngineAnswers(engine_name) :
          search_results' = Append(search_results,
                                   [engine |-> engine_name, response |-> result])
    /\ used_methods' = Append(used_methods, engine_name)
    /\ pending' = pending \ {engine_name}
    /\ UNCHANGED <<request, spc, response>>
    /\ UNCHANGED <<hsVars, engineVars, buildVars, indexVars, syncVars, lifeVars>>

(* _hybrid_search, lines 184-186: future.result() raises; the engine gets  *)
(* an empty response and is not added to used_methods.                     *)
EngineRaise(engine_name) ==
    /\ spc = "collect"
    /\ engine_name \in pending
    /\ search_results' = Append(search_results,
                                [engine |-> engine_name, response |-> EmptyResponse])
    /\ pending' = pending \ {engine_name}
    /\ UNCHANGED <<request, spc, response, used_methods>>
    /\ UNCHANGED <<hsVars, engineVars, buildVars, indexVars, syncVars, lifeVars>>

(* _hybrid_search, lines 188-204: merge, truncate, answer.                 *)
HybridRespond ==
    /\ spc = "collect"
    /\ pending = {}
    /\ LET merged_results == merge_search_results(search_results, weights)
       IN response' = SearchResponse(Len(merged_results),
                                     Truncate(merged_results, request.size),
                                     used_methods)
    /\ spc' = "done"
    /\ UNCHANGED <<request, pending, search_results, used_methods>>
    /\ UNCHANGED <<hsVars, engineVars, buildVars, indexVars, syncVars, lifeVars>>

InitSearch ==
    /\ weights \in WeightConfigs
    /\ initialized \in BOOLEAN
    /\ es_health \in {"up", "down"}
    /\ ac_initialized \in BOOLEAN
    /\ automaton = IF ac_initialized THEN BuiltAutomaton(<<FieldAb>>) ELSE NoAutomaton
    /\ ac_built = IF ac_initialized THEN BuiltFrom(<<FieldAb>>) ELSE NoCorpus
    /\ sim_initialized \in BOOLEAN
    /\ sim_fields = IF sim_initialized THEN <<FieldAb>> ELSE <<>>
    /\ search_corpus = BuiltCorpus(sim_fields)
    /\ sim_built = IF sim_initialized THEN BuiltFrom(<<FieldAb>>) ELSE NoCorpus
    /\ bpc = "idle"
    /\ bfields = <<>>
    /\ bterms = <<>>
    /\ ac_answer = NoAnswer
    /\ sim_seen = NoScan
    /\ sim_answer = NoSimAnswer
    /\ IndicesLoaded
    /\ SchedulerAtRest
    /\ ApiAtRest
    /\ request = [search_method |-> "hybrid", size |-> 1]
    /\ spc = "idle"
    /\ pending = {}
    /\ search_results = <<>>
    /\ used_methods = <<>>
    /\ response = NoResponse

NextSearch ==
    \/ \E method \in SearchMethods, size \in Sizes : SearchCall(method, size)
    \/ \E engine_name \in EngineNames : EngineComplete(engine_name)
    \/ \E engine_name \in EngineNames : EngineRaise(engine_name)
    \/ HybridRespond

SpecSearch == InitSearch /\ [][NextSearch]_vars

-----------------------------------------------------------------------------
(* Properties of the dispatcher and the merger, under SpecSearch.          *)

HybridDone == spc = "done" /\ initialized /\ request.search_method = "hybrid"

Merged == merge_search_results(search_results, weights)

Identity(result) == <<result.table_name, result.column_name>>

ToSet(s) == {s[i] : i \in 1..Len(s)}

(* No engine can serve: the searcher is not initialized, or every          *)
(* configured engine is unready.                                           *)
NoEngineReady == ~initialized \/ \A e \in EngineNames : ~EngineReady(e)

(* C3: a search with no ready engine returns an explicit not-ready error,  *)
(* never an ordinary response with total = 0 and results = [].             *)
C3_NotReadyIsExplicit ==
    (spc = "done" /\ NoEngineReady)
        => ~(response.total = 0 /\ response.results = <<>>)

(* C4: in a hybrid search with elasticsearch down and the other two        *)
(* engines healthy, the response holds the merged results of the two       *)
(* healthy engines and search_methods does not contain "elasticsearch".    *)
C4_FailedEngineOmitted ==
    (HybridDone /\ es_health = "down"
        /\ EngineReady("ac_matcher") /\ EngineReady("similarity"))
        => /\ "elasticsearch" \notin ToSet(response.search_methods)
           /\ response.results =
                  Truncate(merge_search_results(
                               SelectSeq(search_results,
                                         LAMBDA item : item.engine # "elasticsearch"),
                               weights),
                           request.size)

(* C5: the merged list of a hybrid search never holds two entries with     *)
(* the same entity identity (table_name, column_name), whatever the        *)
(* engines returned so far and whatever the weights.                       *)
C5_NoDuplicateIdentity ==
    \A i, j \in 1..Len(Merged) :
        i # j => Identity(Merged[i]) # Identity(Merged[j])

(* C5 witness: a finished hybrid search in which two engines returned the  *)
(* same entity.                                                            *)
C5_Witness ==
    /\ HybridDone
    /\ response.total >= 1
    /\ \E a, b \in 1..Len(search_results) :
          /\ a # b
          /\ \E x \in ToSet(search_results[a].response.results),
                y \in ToSet(search_results[b].response.results) :
                 Identity(x) = Identity(y)

(* The weighted score of a merged entry, from the raw score and the        *)
(* engine recorded for it.                                                 *)
Weighted(result) ==
    result.extra_info.original_score * EngineWeight(weights, result.search_method)

OrderedByWeighted(results) ==
    \A i, j \in 1..Len(results) :
        Weighted(results[i]) > Weighted(results[j]) => i < j

(* C6: the merged list is ordered by weighted score (raw score times       *)
(* engine weight): an entry with a strictly greater weighted score comes   *)
(* first, in the merged list and in the truncated response, which is a     *)
(* prefix of it.                                                           *)
C6_OrderedByWeightedScore ==
    /\ OrderedByWeighted(Merged)
    /\ HybridDone =>
          /\ response.results = SubSeq(Merged, 1, Len(response.results))
          /\ OrderedByWeighted(response.results)

(* C6 witness: a finished hybrid search whose response holds two entries   *)
(* with different weighted scores, the later engine's entry ranked first.  *)
C6_Witness ==
    /\ HybridDone
    /\ Len(response.results) >= 2
    /\ Weighted(response.results[1]) > Weighted(response.results[2])
    /\ response.results[1].search_method = used_methods[Len(used_methods)]

-----------------------------------------------------------------------------
(* The in-memory engines: rebuilds and searches of concurrent threads.     *)

InitEngine ==
    /\ weights = DefaultWeights
    /\ initialized = FALSE
    /\ es_health = "up"
    /\ automaton = NoAutomaton
    /\ ac_initialized = FALSE
    /\ sim_fields = <<>>
    /\ search_corpus = <<>>
    /\ sim_initialized = FALSE
    /\ bpc = "idle"
    /\ bfields = <<>>
    /\ bterms = <<>>
    /\ ac_built = NoCorpus
    /\ sim_built = NoCorpus
    /\ ac_answer = NoAnswer
    /\ sim_seen = NoScan
    /\ sim_answer = NoSimAnswer
    /\ IndicesLoaded
    /\ SchedulerAtRest
    /\ ApiAtRest
    /\ request = [search_method |-> "hybrid", size |-> 1]
    /\ spc = "idle"
    /\ pending = {}
    /\ search_results = <<>>
    /\ used_methods = <<>>
    /\ response = NoResponse

NextEngine ==
    \/ \E fields \in Corpora : Rebuild(fields)
    \/ ACTerms
    \/ ACAddWord
    \/ ACMake
    \/ ACFinish
    \/ SimBegin
    \/ SimReset
    \/ SimAppend
    \/ SimFinish
    \/ \E query \in Queries, table_name \in TableFilters, size \in EngineSizes :
           ACSearch(query, table_name, size)
    \/ SimSearch

SpecEngine == InitEngine /\ [][NextEngine]_vars

-----------------------------------------------------------------------------
(* Properties of the in-memory engines, under SpecEngine.                  *)

(* name class weight 2.0 * exact-equality bonus 2.0 * length factor 1.25   *)
MaxNameScore == (TypeWeight("chinese_name") * 20 * 125) \div 10

Returned(answer, field, score) ==
    \E k \in 1..Len(answer.results) :
        /\ answer.results[k].table_name = field.table_name
        /\ answer.results[k].column_name = field.column_name
        /\ answer.results[k].score = score

(* C7: on a completely built corpus, an ACMatcher.search_fields query      *)
(* equal to the display name of an enabled entity E of the corpus (no      *)
(* table filter, size not below the corpus size) returns E with the        *)
(* maximum score of the name class, whatever strings the corpus shares.    *)
C7_ExactNameHasMaxScore ==
    [][\A query \in Queries, size \in EngineSizes :
          (/\ ACSearch(query, NoTable, size)
           /\ bpc = "idle"
           /\ ac_built.built
           /\ size >= Len(ac_built.fields))
          => \A i \in 1..Len(ac_built.fields) :
                (ac_built.fields[i].is_enabled /\ ac_built.fields[i].chinese_name = query)
                    => Returned(ac_answer'.response, ac_built.fields[i], MaxNameScore)]_vars

(* The response of ACMatcher.search_fields on a completely built corpus.   *)
ACAnswerFrom(corpus, query, table_name, size) ==
    IF corpus.built
    THEN ac_search_fields(BuiltAutomaton(corpus.fields), TRUE, query, table_name, size)
    ELSE ACNotReady

CorpusOf(corpus) == IF corpus.built THEN BuiltCorpus(corpus.fields) ELSE <<>>

ACBuilding == bpc \in {"ac_terms", "ac_add", "ac_set"} /\ ~InitializeRaises(bfields)

SimBuilding == bpc \in {"sim_reset", "sim_append"}

(* C8, ACMatcher: a search_fields call that runs while initialize(fields)  *)
(* is in progress answers as the complete previous corpus or as the        *)
(* complete new corpus would.                                              *)
C8_ACSeesCompleteCorpus ==
    \A query \in Queries, table_name \in TableFilters, size \in EngineSizes :
        (ACSearch(query, table_name, size) /\ ACBuilding)
            => ac_answer'.response \in
                   {ACAnswerFrom(ac_built, query, table_name, size),
                    ACAnswerFrom(BuiltFrom(bfields), query, table_name, size)}

(* C8, SimilarityMatcher: a search_fields call that runs while             *)
(* initialize(fields) is in progress iterates the complete previous        *)
(* search_corpus or the complete new one.                                  *)
C8_SimSeesCompleteCorpus ==
    (SimSearch /\ SimBuilding)
        => sim_seen'.items \in {CorpusOf(sim_built), BuiltCorpus(bfields)}

(* C8: while an in-memory engine is being rebuilt, every concurrent        *)
(* search_fields call on it answers from the complete previous corpus or   *)
(* from the complete new corpus, never from an empty, partially filled or  *)
(* not finalized structure.                                                *)
C8_RebuildIsAtomic ==
    [][C8_ACSeesCompleteCorpus /\ C8_SimSeesCompleteCorpus]_vars

-----------------------------------------------------------------------------
(* DataSyncScheduler.sync_data, called by several threads (the scheduler's *)
(* job, the manual trigger).  One action per statement that another thread *)
(* can observe.                                                            *)

(* What loader.load_from_api returns: MetadataField objects; the empty     *)
(* list stands for an empty answer and for a loader that raises.           *)
LoadedFields == {<<>>, <<FieldMeta>>, <<FieldMeta, FieldDim>>}

DocIds(fields) == {ac_field_key(fields[i]) : i \in 1..Len(fields)}

NewDimensionDocs == {"v2"}

NewMetricDocs == {"m2"}

SetPc(t, position) == sync_pc' = [sync_pc EXCEPT ![t] = position]

(* Mutant: a failed sub-sync is recorded without touching the aggregate.   *)
SetResultOnly(t, part, value) ==
    sync_results' = [sync_results EXCEPT ![t] = [@ EXCEPT ![part] = value]]

(* sync_data, lines 174-178, 191-193 and 209-212: the result of a sub-sync *)
(* is stored; one that failed clears success and appends a message that    *)
(* names the sub-sync.                                                     *)
SetResult(t, part, value) ==
    sync_results' = [sync_results EXCEPT ![t] =
                        IF value = "fail"
                        THEN [@ EXCEPT ![part] = value, !.success = FALSE,
                                       !.errors = @ \cup {part}]
                        ELSE [@ EXCEPT ![part] = value]]

(* Mutant: the lock is released only by a run that succeeded.              *)
FinallyOnSuccess(t) ==
    IF sync_results[t].success
    THEN is_syncing' = FALSE /\ sync_lock' = NoThread
    ELSE UNCHANGED <<is_syncing, sync_lock>>

(* sync_data, lines 239-241: the finally block.                            *)
Finally(t) == is_syncing' = FALSE /\ sync_lock' = NoThread

(* Mutant: force=True takes the lock even when it is held.                 *)
AcquiredOrForced(t) == sync_lock = NoThread \/ sync_force[t]

(* self.sync_lock.acquire(blocking=False)                                  *)
Acquired(t) == sync_lock = NoThread

(* scheduler.py 139-145: the check of is_syncing.                          *)
SyncCall(t, force) ==
    /\ sync_pc[t] = "idle"
    /\ sync_force' = [sync_force EXCEPT ![t] = force]
    /\ IF is_syncing /\ ~force
       THEN /\ sync_results' = [sync_results EXCEPT ![t] = Rejected("syncing")]
            /\ SetPc(t, "returned")
       ELSE /\ SetPc(t, "acquire")
            /\ UNCHANGED sync_results
    /\ UNCHANGED <<sync_lock, is_syncing, last_sync_status, fields_data, sync_fields, snapshot>>
    /\ UNCHANGED <<hsVars, engineVars, buildVars, callVars, indexVars, lifeVars>>

(* scheduler.py 148-154: the non-blocking acquire.                         *)
SyncAcquire(t) ==
    /\ sync_pc[t] = "acquire"
    /\ IF Acquired(t)
       THEN /\ sync_lock' = t
            /\ SetPc(t, "begin")
            /\ UNCHANGED sync_results
       ELSE /\ sync_results' = [sync_results EXCEPT ![t] = Rejected("no lock")]
            /\ SetPc(t, "returned")
            /\ UNCHANGED sync_lock
    /\ UNCHANGED <<is_syncing, last_sync_status, fields_data, sync_force, sync_fields, snapshot>>
    /\ UNCHANGED <<hsVars, engineVars, buildVars, callVars, indexVars, lifeVars>>

(* scheduler.py 157-169: the sync body starts.                             *)
SyncBegin(t) ==
    /\ sync_pc[t] = "begin"
    /\ is_syncing' = TRUE
    /\ sync_results' = [sync_results EXCEPT ![t] = NewResults]
    /\ snapshot' = IndexSnapshot
    /\ SetPc(t, "metadata")
    /\ UNCHANGED <<sync_lock, last_sync_status, fields_data, sync_force, sync_fields>>
    /\ UNCHANGED <<hsVars, engineVars, buildVars, callVars, indexVars, lifeVars>>

(* _sync_metadata, scheduler.py 245-266: load the fields.                  *)
MetadataLoad(t, fields) ==
    /\ sync_pc[t] = "metadata"
    /\ IF fields = <<>>
       THEN /\ SetResult(t, "metadata", "fail")
            /\ SetPc(t, "metrics")
            /\ UNCHANGED sync_fields
       ELSE /\ sync_fields' = [sync_fields EXCEPT ![t] = fields]
            /\ SetPc(t, "fields_delete")
            /\ UNCHANGED sync_results
    /\ UNCHANGED <<sync_lock, is_syncing, last_sync_status, fields_data, sync_force, snapshot>>
    /\ UNCHANGED <<hsVars, engineVars, buildVars, callVars, indexVars, lifeVars>>

(* create_index(force=True), elasticsearch_engine.py 202-203: the old      *)
(* index is deleted; if the service fails, create_index returns False,     *)
(* which _sync_metadata ignores.                                           *)
FieldsDelete(t, ok) ==
    /\ sync_pc[t] = "fields_delete"
    /\ IF ok
       THEN /\ fields_index' = MissingIndex
            /\ SetPc(t, "fields_create")
       ELSE /\ SetPc(t, "fields_bulk")
            /\ UNCHANGED fields_index
    /\ UNCHANGED <<dimension_index, metric_index>>
    /\ UNCHANGED <<sync_lock, is_syncing, last_sync_status, fields_data, sync_force,
                   sync_results, sync_fields, snapshot>>
    /\ UNCHANGED <<hsVars, engineVars, buildVars, callVars, lifeVars>>

(* create_index, elasticsearch_engine.py 207: the new index is created.    *)
FieldsCreate(t, ok) ==
    /\ sync_pc[t] = "fields_create"
    /\ fields_index' = IF ok THEN CreatedIndex ELSE fields_index
    /\ SetPc(t, "fields_bulk")
    /\ UNCHANGED <<dimension_index, metric_index>>
    /\ UNCHANGED <<sync_lock, is_syncing, last_sync_status, fields_data, sync_force,
                   sync_results, sync_fields, snapshot>>
    /\ UNCHANGED <<hsVars, engineVars, buildVars, callVars, lifeVars>>

(* bulk_index_fields, scheduler.py 284-285: docs are the documents the     *)
(* service accepted (all, or none when the bulk raises); a bulk into a     *)
(* missing index creates it.                                               *)
FieldsBulk(t, docs) ==
    /\ sync_pc[t] = "fields_bulk"
    /\ docs \in {{}, DocIds(sync_fields[t])}
    /\ fields_index' = IF docs = {} THEN fields_index
                       ELSE LoadedIndex(fields_index.docs \cup docs)
    /\ sync_results' = [sync_results EXCEPT ![t].fields_indexed = Cardinality(docs)]
    /\ SetPc(t, "engines")
    /\ UNCHANGED <<dimension_index, metric_index>>
    /\ UNCHANGED <<sync_lock, is_syncing, last_sync_status, fields_data, sync_force,
                   sync_fields, snapshot>>
    /\ UNCHANGED <<hsVars, engineVars, buildVars, callVars, lifeVars>>

(* scheduler.py 291-297: the in-memory engines are rebuilt from the loaded *)
(* fields; the steps of the two initialize calls follow.                   *)
SyncEngines(t) ==
    /\ sync_pc[t] = "engines"
    /\ BeginRebuild(sync_fields[t])
    /\ SetPc(t, "engines_wait")
    /\ UNCHANGED <<sync_lock, is_syncing, last_sync_status, fields_data, sync_force,
                   sync_results, sync_fields, snapshot>>
    /\ UNCHANGED indexVars

(* scheduler.py 300-308: fields_data is replaced; success is True.         *)
MetadataDone(t) ==
    /\ sync_pc[t] = "engines_wait"
    /\ bpc = "idle"
    /\ fields_data' = sync_fields[t]
    /\ SetResult(t, "metadata", "ok")
    /\ SetPc(t, "dimensions")
    /\ UNCHANGED <<sync_lock, is_syncing, last_sync_status, sync_force, sync_fields, snapshot>>
    /\ UNCHANGED <<hsVars, engineVars, buildVars, callVars, indexVars, lifeVars>>

(* sync_data 176-194 and _sync_dimension_values 388-411: the dimension     *)
(* fields of the loaded fields; with none the sub-sync succeeds at once.   *)
DimensionsBegin(t) ==
    /\ sync_pc[t] = "dimensions"
    /\ IF \E k \in 1..Len(sync_fields[t]) : sync_fields[t][k].field_type = "DIMENSION"
       THEN /\ SetPc(t, "dimension_delete")
            /\ UNCHANGED sync_results
       ELSE /\ SetResult(t, "dimension_values", "ok")
            /\ SetPc(t, "metrics")
    /\ UNCHANGED <<sync_lock, is_syncing, last_sync_status, fields_data, sync_force,
                   sync_fields, snapshot>>
    /\ UNCHANGED <<hsVars, engineVars, buildVars, callVars, indexVars, lifeVars>>

(* create_dimension_values_index(force=True), elasticsearch_engine.py      *)
(* 307-308; a False result fails the sub-sync (scheduler.py 415-421).      *)
DimensionDelete(t, ok) ==
    /\ sync_pc[t] = "dimension_delete"
    /\ IF ok
       THEN /\ dimension_index' = MissingIndex
            /\ SetPc(t, "dimension_create")
            /\ UNCHANGED sync_results
       ELSE /\ SetResult(t, "dimension_values", "fail")
            /\ SetPc(t, "metrics")
            /\ UNCHANGED dimension_index
    /\ UNCHANGED <<fields_index, metric_index>>
    /\ UNCHANGED <<sync_lock, is_syncing, last_sync_status, fields_data, sync_force,
                   sync_fields, snapshot>>
    /\ UNCHANGED <<hsVars, engineVars, buildVars, callVars, lifeVars>>

(* create_dimension_values_index, elasticsearch_engine.py 312.             *)
DimensionCreate(t, ok) ==
    /\ sync_pc[t] = "dimension_create"
    /\ IF ok
       THEN /\ dimension_index' = CreatedIndex
            /\ SetPc(t, "dimension_extract")
            /\ UNCHANGED sync_results
       ELSE /\ SetResult(t, "dimension_values", "fail")
            /\ SetPc(t, "metrics")
            /\ UNCHANGED dimension_index
    /\ UNCHANGED <<fields_index, metric_index>>
    /\ UNCHANGED <<sync_lock, is_syncing, last_sync_status, fields_data, sync_force,
                   sync_fields, snapshot>>
    /\ UNCHANGED <<hsVars, engineVars, buildVars, callVars, lifeVars>>

(* scheduler.py 424-447: the values are extracted and indexed.  The        *)
(* extraction raises, finds no value, or finds values of which the         *)
(* service accepts docs.                                                   *)
DimensionExtract(t, outcome, docs) ==
    /\ sync_pc[t] = "dimension_extract"
    /\ docs \subseteq NewDimensionDocs
    /\ outcome = "values" \/ docs = {}
    /\ dimension_index' = IF docs = {} THEN dimension_index
                          ELSE LoadedIndex(dimension_index.docs \cup docs)
    /\ SetResult(t, "dimension_values", IF outcome = "raise" THEN "fail" ELSE "ok")
    /\ SetPc(t, "metrics")
    /\ UNCHANGED <<fields_index, metric_index>>
    /\ UNCHANGED <<sync_lock, is_syncing, last_sync_status, fields_data, sync_force,
                   sync_fields, snapshot>>
    /\ UNCHANGED <<hsVars, engineVars, buildVars, callVars, lifeVars>>

(* _sync_metrics, scheduler.py 321-346: load the metrics; loaded is FALSE  *)
(* for an empty answer and for a loader that raises.                       *)
MetricsLoad(t, loaded) ==
    /\ sync_pc[t] = "metrics"
    /\ IF loaded
       THEN /\ SetPc(t, "metric_delete")
            /\ UNCHANGED sync_results
       ELSE /\ SetResult(t, "metrics", "fail")
            /\ SetPc(t, "finish")
    /\ UNCHANGED <<sync_lock, is_syncing, last_sync_status, fields_data, sync_force,
                   sync_fields, snapshot>>
    /\ UNCHANGED <<hsVars, engineVars, buildVars, callVars, indexVars, lifeVars>>

(* create_metric_index(force=True), elasticsearch_engine.py 993-995; its   *)
(* result is ignored (scheduler.py 349).                                   *)
MetricDelete(t, ok) ==
    /\ sync_pc[t] = "metric_delete"
    /\ IF ok
       THEN /\ metric_index' = MissingIndex
            /\ SetPc(t, "metric_create")
       ELSE /\ SetPc(t, "metric_bulk")
            /\ UNCHANGED metric_index
    /\ UNCHANGED <<fields_index, dimension_index>>
    /\ UNCHANGED <<sync_lock, is_syncing, last_sync_status, fields_data, sync_force,
                   sync_results, sync_fields, snapshot>>
    /\ UNCHANGED <<hsVars, engineVars, buildVars, callVars, lifeVars>>

(* create_metric_index, elasticsearch_engine.py 998.                       *)
MetricCreate(t, ok) ==
    /\ sync_pc[t] = "metric_create"
    /\ metric_index' = IF ok THEN CreatedIndex ELSE metric_index
    /\ SetPc(t, "metric_bulk")
    /\ UNCHANGED <<fields_index, dimension_index>>
    /\ UNCHANGED <<sync_lock, is_syncing, last_sync_status, fields_data, sync_force,
                   sync_results, sync_fields, snapshot>>
    /\ UNCHANGED <<hsVars, engineVars, buildVars, callVars, lifeVars>>

(* bulk_index_metrics, elasticsearch_engine.py 1044-1050: success > 0.     *)
MetricBulk(t, docs) ==
    /\ sync_pc[t] = "metric_bulk"
    /\ docs \subseteq NewMetricDocs
    /\ metric_index' = IF docs = {} THEN metric_index
                       ELSE LoadedIndex(metric_index.docs \cup docs)
    /\ SetResult(t, "metrics", IF docs = {} THEN "fail" ELSE "ok")
    /\ SetPc(t, "finish")
    /\ UNCHANGED <<fields_index, dimension_index>>
    /\ UNCHANGED <<sync_lock, is_syncing, last_sync_status, fields_data, sync_force,
                   sync_fields, snapshot>>
    /\ UNCHANGED <<hsVars, engineVars, buildVars, callVars, lifeVars>>

(* Mutant: only a run that succeeded is recorded.                          *)
StoredOnSuccess(results) == IF results.success THEN "success" ELSE last_sync_status

(* scheduler.py 227: self.last_sync_status = results, told by its success. *)
StoredStatus(results) == IF results.success THEN "success" ELSE "failed"

(* scheduler.py 221-241: the results are recorded and returned; the        *)
(* finally block clears is_syncing and releases the lock.                  *)
SyncReturn(t) ==
    /\ sync_pc[t] = "finish"
    /\ last_sync_status' = StoredStatus(sync_results[t])
    /\ Finally(t)
    /\ sync_fields' = [sync_fields EXCEPT ![t] = <<>>]
    /\ snapshot' = NoSnapshot
    /\ SetPc(t, "returned")
    /\ UNCHANGED <<fields_data, sync_force, sync_results>>
    /\ UNCHANGED <<hsVars, engineVars, buildVars, callVars, indexVars, lifeVars>>

(* The caller has its answer; the thread is free for another call.         *)
SyncAgain(t) ==
    /\ sync_pc[t] = "returned"
    /\ SetPc(t, "idle")
    /\ sync_force' = [sync_force EXCEPT ![t] = FALSE]
    /\ sync_results' = [sync_results EXCEPT ![t] = NewResults]
    /\ UNCHANGED <<sync_lock, is_syncing, last_sync_status, fields_data, sync_fields, snapshot>>
    /\ UNCHANGED <<hsVars, engineVars, buildVars, callVars, indexVars, lifeVars>>

IndexNames == {"fields", "dimension_values", "metrics"}

IndexNamed(name) ==
    CASE name = "fields"           -> fields_index
      [] name = "dimension_values" -> dimension_index
      [] name = "metrics"          -> metric_index

(* The service after a start on populated indices: the search service     *)
(* answers; the two initialize calls of the start failed on the           *)
(* MetadataField objects.                                                  *)
InitSync ==
    /\ weights = DefaultWeights
    /\ initialized = TRUE
    /\ es_health = "up"
    /\ automaton = EmptyAutomaton
    /\ ac_initialized = FALSE
    /\ sim_fields = <<>>
    /\ search_corpus = <<>>
    /\ sim_initialized = FALSE
    /\ bpc = "idle"
    /\ bfields = <<>>
    /\ bterms = <<>>
    /\ ac_built = NoCorpus
    /\ sim_built = NoCorpus
    /\ ac_answer = NoAnswer
    /\ sim_seen = NoScan
    /\ sim_answer = NoSimAnswer
    /\ IndicesLoaded
    /\ SchedulerAtRest
    /\ ApiAtRest
    /\ request = [search_method |-> "hybrid", size |-> 1]
    /\ spc = "idle"
    /\ pending = {}
    /\ search_results = <<>>
    /\ used_methods = <<>>
    /\ response = NoResponse

(* The fields a sync loads are MetadataField objects, on which both        *)
(* initialize calls raise at the first field: of the rebuild steps only    *)
(* ACTerms and SimBegin can follow SyncEngines.                            *)
NextSync ==
    \/ \E t \in SyncThreads, force \in BOOLEAN : SyncCall(t, force)
    \/ \E t \in SyncThreads : SyncAcquire(t)
    \/ \E t \in SyncThreads : SyncBegin(t)
    \/ \E t \in SyncThreads, fields \in LoadedFields : MetadataLoad(t, fields)
    \/ \E t \in SyncThreads, ok \in BOOLEAN : FieldsDelete(t, ok)
    \/ \E t \in SyncThreads, ok \in BOOLEAN : FieldsCreate(t, ok)
    \/ \E t \in SyncThreads, docs \in SUBSET DocIds(<<FieldMeta, FieldDim>>) :
           FieldsBulk(t, docs)
    \/ \E t \in SyncThreads : SyncEngines(t)
    \/ ACTerms
    \/ SimBegin
    \/ \E t \in SyncThreads : MetadataDone(t)
    \/ \E t \in SyncThreads : DimensionsBegin(t)
    \/ \E t \in SyncThreads, ok \in BOOLEAN : DimensionDelete(t, ok)
    \/ \E t \in SyncThreads, ok \in BOOLEAN : DimensionCreate(t, ok)
    \/ \E t \in SyncThreads, outcome \in {"raise", "none", "values"},
          docs \in SUBSET NewDimensionDocs : DimensionExtract(t, outcome, docs)
    \/ \E t \in SyncThreads, loaded \in BOOLEAN : MetricsLoad(t, loaded)
    \/ \E t \in SyncThreads, ok \in BOOLEAN : MetricDelete(t, ok)
    \/ \E t \in SyncThreads, ok \in BOOLEAN : MetricCreate(t, ok)
    \/ \E t \in SyncThreads, docs \in SUBSET NewMetricDocs : MetricBulk(t, docs)
    \/ \E t \in SyncThreads : SyncReturn(t)
    \/ \E t \in SyncThreads : SyncAgain(t)

SpecSync == InitSync /\ [][NextSync]_vars

-----------------------------------------------------------------------------
(* Properties of the synchronisation, under SpecSync.                      *)

(* The thread is inside the sync body: it took the lock and has not        *)
(* released it.                                                            *)
InBody(t) == sync_pc[t] \notin {"idle", "acquire", "returned"}

(* The call was turned away: it returned one of the two early dicts.       *)
TurnedAway(t) == sync_pc[t] = "returned" /\ sync_results[t].message # ""

C9_NoSearchGap ==
    \A name \in IndexNames : snapshot[name] => Answerable(IndexNamed(name))

-----------------------------------------------------------------------------
(* api/search_api.py: requests.  A request first runs its dependency       *)
(* get_hybrid_searcher in a worker thread, then its handler body, which    *)
(* calls ensure_searcher_ready, on the event loop.  The event loop runs    *)
(* one handler body at a time and dispatches no dependency while a body    *)
(* occupies it; worker threads run concurrently with it.                   *)

SetApiPc(t, position) == api_pc' = [api_pc EXCEPT ![t] = position]

AllThreeReady ==
    Answerable(fields_index) /\ Answerable(metric_index) /\ Answerable(dimension_index)

(* The dependency is dispatched; search_api.py 99: is there a searcher?    *)
RequestStart(t) ==
    /\ api_pc[t] = "idle"
    /\ loop_owner = NoThread
    /\ SetApiPc(t, IF hybrid_searcher = 0 THEN "ghs_new" ELSE "ghs_attempt")
    /\ UNCHANGED <<hybrid_searcher, initialization_attempted, data_sync_scheduler,
                   loop_owner, api_local, api_result, rebuilds, cold_start,
                   create_succeeded, probe_found_all>>
    /\ UNCHANGED <<hsVars, engineVars, buildVars, callVars, indexVars, syncVars>>

(* search_api.py 100-101: _hybrid_searcher = HybridSearcher(), a new       *)
(* instance with initialized = False and engines that are not built.       *)
GhsNew(t) ==
    /\ api_pc[t] = "ghs_new"
    /\ hybrid_searcher' = hybrid_searcher + 1
    /\ initialized' = FALSE
    /\ automaton' = NoAutomaton
    /\ ac_initialized' = FALSE
    /\ sim_fields' = <<>>
    /\ search_corpus' = <<>>
    /\ sim_initialized' = FALSE
    /\ ac_built' = NoCorpus
    /\ sim_built' = NoCorpus
    /\ fields_data' = <<>>
    /\ SetApiPc(t, "ghs_attempt")
    /\ UNCHANGED <<weights, es_health, bpc, bfields, bterms, ac_answer, sim_seen, sim_answer>>
    /\ UNCHANGED <<initialization_attempted, data_sync_scheduler, loop_owner,
                   api_local, api_result, rebuilds, cold_start,
                   create_succeeded, probe_found_all>>
    /\ UNCHANGED <<sync_lock, is_syncing, last_sync_status, sync_pc, sync_force,
                   sync_results, sync_fields, snapshot>>
    /\ UNCHANGED <<callVars, indexVars>>

(* search_api.py 104: if not _initialization_attempted                     *)
GhsAttempt(t) ==
    /\ api_pc[t] = "ghs_attempt"
    /\ SetApiPc(t, IF initialization_attempted THEN "ghs_scheduler" ELSE "ghs_set")
    /\ UNCHANGED <<hybrid_searcher, initialization_attempted, data_sync_scheduler,
                   loop_owner, api_local, api_result, rebuilds, cold_start,
                   create_succeeded, probe_found_all>>
    /\ UNCHANGED <<hsVars, engineVars, buildVars, callVars, indexVars, syncVars>>

(* search_api.py 105: _initialization_attempted = True                     *)
GhsSet(t) ==
    /\ api_pc[t] = "ghs_set"
    /\ initialization_attempted' = TRUE
    /\ SetApiPc(t, "ghs_probe")
    /\ UNCHANGED <<hybrid_searcher, data_sync_scheduler, loop_owner, api_local,
                   api_result, rebuilds, cold_start,
                   create_succeeded, probe_found_all>>
    /\ UNCHANGED <<hsVars, engineVars, buildVars, callVars, indexVars, syncVars>>

(* search_api.py 109-183: the probe of the three indices; when the service *)
(* fails (ok = FALSE) the except branch keeps need_initialization.         *)
GhsProbe(t, ok) ==
    /\ api_pc[t] = "ghs_probe"
    /\ IF ok /\ AllThreeReady
       THEN /\ initialized' = TRUE
            /\ probe_found_all' = TRUE
            /\ SetApiPc(t, "ghs_scheduler")
            /\ UNCHANGED api_local
       ELSE /\ api_local' = [api_local EXCEPT ![t] = [NoLocals EXCEPT !.caller = "ghs"]]
            /\ SetApiPc(t, "create_probe")
            /\ UNCHANGED <<initialized, probe_found_all>>
    /\ UNCHANGED <<weights, es_health>>
    /\ UNCHANGED <<hybrid_searcher, initialization_attempted, data_sync_scheduler,
                   loop_owner, api_result, rebuilds, cold_start, create_succeeded>>
    /\ UNCHANGED <<engineVars, buildVars, callVars, indexVars, syncVars>>

(* search_api.py 216-225: the scheduler is created if there is none.       *)
GhsScheduler(t) ==
    /\ api_pc[t] = "ghs_scheduler"
    /\ SetApiPc(t, IF data_sync_scheduler = 0 THEN "ghs_scheduler_new" ELSE "body")
    /\ UNCHANGED <<hybrid_searcher, initialization_attempted, data_sync_scheduler,
                   loop_owner, api_local, api_result, rebuilds, cold_start,
                   create_succeeded, probe_found_all>>
    /\ UNCHANGED <<hsVars, engineVars, buildVars, callVars, indexVars, syncVars>>

(* search_api.py 222-223: _data_sync_scheduler = DataSyncScheduler(...)    *)
GhsSchedulerNew(t) ==
    /\ api_pc[t] = "ghs_scheduler_new"
    /\ data_sync_scheduler' = data_sync_scheduler + 1
    /\ SetApiPc(t, "body")
    /\ UNCHANGED <<hybrid_searcher, initialization_attempted, loop_owner, api_local,
                   api_result, rebuilds, cold_start,
                   create_succeeded, probe_found_all>>
    /\ UNCHANGED <<hsVars, engineVars, buildVars, callVars, indexVars, syncVars>>

(* Mutant: the probe alone decides, whatever searcher.initialized is.      *)
ProbeAloneDecides(ok) == ok /\ Answerable(fields_index)

(* search_api.py 231-246: the call returns True at once when the searcher  *)
(* is initialized, and otherwise when the probe finds documents in the     *)
(* fields index.                                                           *)
ReadyWithoutRebuild(ok) == initialized \/ (ok /\ Answerable(fields_index))

(* ensure_searcher_ready, search_api.py 229-252, as the handler body       *)
(* takes the event loop: the probe of the fields index alone; when the     *)
(* service fails (ok = FALSE) the except branch goes on to the rebuild.    *)
EnsureProbe(t, ok) ==
    /\ api_pc[t] = "body"
    /\ loop_owner = NoThread
    /\ IF ReadyWithoutRebuild(ok)
       THEN /\ initialized' = TRUE
            /\ api_result' = [api_result EXCEPT ![t] = "ready"]
            /\ SetApiPc(t, "done")
            /\ UNCHANGED <<loop_owner, api_local>>
       ELSE /\ loop_owner' = t
            /\ api_local' = [api_local EXCEPT ![t] = [NoLocals EXCEPT !.caller = "ensure"]]
            /\ SetApiPc(t, "create_probe")
            /\ UNCHANGED <<initialized, api_result>>
    /\ UNCHANGED <<weights, es_health>>
    /\ UNCHANGED <<hybrid_searcher, initialization_attempted, data_sync_scheduler,
                   rebuilds, cold_start, create_succeeded, probe_found_all>>
    /\ UNCHANGED <<engineVars, buildVars, callVars, indexVars, syncVars>>

(* HybridSearcher.create_index_with_data(force_recreate=False),            *)
(* hybrid_searcher.py 393-442: the probe that skips the rebuild when the   *)
(* fields index and the dimension values index have documents.  When the   *)
(* service fails (ok = FALSE) the except branch goes on to the rebuild.    *)
CreateProbe(t, ok) ==
    /\ api_pc[t] = "create_probe"
    /\ IF ok /\ Answerable(fields_index) /\ Answerable(dimension_index)
       THEN /\ initialized' = TRUE
            /\ api_result' = [api_result EXCEPT ![t] = "skipped"]
            /\ SetApiPc(t, "create_return")
            /\ UNCHANGED rebuilds
       ELSE /\ rebuilds' = rebuilds + 1
            /\ SetApiPc(t, "create_load")
            /\ UNCHANGED <<initialized, api_result>>
    /\ UNCHANGED <<weights, es_health>>
    /\ UNCHANGED <<hybrid_searcher, initialization_attempted, data_sync_scheduler,
                   loop_owner, api_local, cold_start,
                   create_succeeded, probe_found_all>>
    /\ UNCHANGED <<engineVars, buildVars, callVars, indexVars, syncVars>>

(* hybrid_searcher.py 444-459: loader.load(); no field ends the call with  *)
(* success False; otherwise initialize begins: self.fields_data = fields.  *)
CreateLoad(t, fields) ==
    /\ api_pc[t] = "create_load"
    /\ IF fields = <<>>
       THEN /\ api_result' = [api_result EXCEPT ![t] = "failed"]
            /\ SetApiPc(t, "create_return")
            /\ UNCHANGED <<api_local, fields_data>>
       ELSE /\ api_local' = [api_local EXCEPT ![t].fields = fields]
            /\ fields_data' = fields
            /\ SetApiPc(t, "init_es_check")
            /\ UNCHANGED api_result
    /\ UNCHANGED <<hybrid_searcher, initialization_attempted, data_sync_scheduler,
                   loop_owner, rebuilds, cold_start,
                   create_succeeded, probe_found_all>>
    /\ UNCHANGED <<sync_lock, is_syncing, last_sync_status, sync_pc, sync_force,
                   sync_results, sync_fields, snapshot>>
    /\ UNCHANGED <<hsVars, engineVars, buildVars, callVars, indexVars>>

(* create_index(force=False), elasticsearch_engine.py 110-113: an index    *)
(* that exists is kept and the call returns True.                          *)
InitEsCheck(t) ==
    /\ api_pc[t] = "init_es_check"
    /\ ~api_local[t].force
    /\ SetApiPc(t, IF fields_index.exists THEN "init_bulk" ELSE "init_es_create")
    /\ UNCHANGED <<hybrid_searcher, initialization_attempted, data_sync_scheduler,
                   loop_owner, api_local, api_result, rebuilds, cold_start,
                   create_succeeded, probe_found_all>>
    /\ UNCHANGED <<hsVars, engineVars, buildVars, callVars, indexVars, syncVars>>

(* elasticsearch_engine.py 207-213: es.indices.create, which raises when   *)
(* the service fails or the index exists by now; create_index then returns *)
(* False and initialize skips the bulk.                                    *)
InitEsCreate(t, ok) ==
    /\ api_pc[t] = "init_es_create"
    /\ IF ok /\ ~fields_index.exists
       THEN /\ fields_index' = CreatedIndex
            /\ SetApiPc(t, "init_bulk")
       ELSE /\ SetApiPc(t, "init_engines")
            /\ UNCHANGED fields_index
    /\ UNCHANGED <<dimension_index, metric_index>>
    /\ UNCHANGED <<hybrid_searcher, initialization_attempted, data_sync_scheduler,
                   loop_owner, api_local, api_result, rebuilds, cold_start,
                   create_succeeded, probe_found_all>>
    /\ UNCHANGED <<hsVars, engineVars, buildVars, callVars, syncVars>>

(* hybrid_searcher.py 64-66: bulk_index_fields, whose result is only       *)
(* logged, then success_count += 1.                                        *)
InitBulk(t, ok) ==
    /\ api_pc[t] = "init_bulk"
    /\ fields_index' = IF ok /\ fields_index.exists
                       THEN BulkInto(fields_index, DocIds(api_local[t].fields))
                       ELSE fields_index
    /\ api_local' = [api_local EXCEPT ![t].success_count = @ + 1]
    /\ SetApiPc(t, "init_engines")
    /\ UNCHANGED <<dimension_index, metric_index>>
    /\ UNCHANGED <<hybrid_searcher, initialization_attempted, data_sync_scheduler,
                   loop_owner, api_result, rebuilds, cold_start,
                   create_succeeded, probe_found_all>>
    /\ UNCHANGED <<hsVars, engineVars, buildVars, callVars, syncVars>>

(* similarity_matcher.py 32-65 raises on a field without the attributes    *)
(* the loops read.                                                         *)
SimInitializeRaises(fields) ==
    \E i \in 1..Len(fields) :
        \/ ~HasAttr(fields[i], "is_enabled")
        \/ fields[i].is_enabled /\ ~HasAttr(fields[i], "enum_values")
        \/ fields[i].is_enabled /\ ~HasAttr(fields[i], "sample_data")

(* hybrid_searcher.py 71-85: the results of ac_matcher.initialize(fields)  *)
(* and similarity_matcher.initialize(fields), each counted when True.      *)
InitEngines(t) ==
    /\ api_pc[t] = "init_engines"
    /\ LET fields == api_local[t].fields
           ac_ok == ~InitializeRaises(fields)
           sim_ok == ~SimInitializeRaises(fields)
       IN /\ automaton' = IF ac_ok THEN BuiltAutomaton(fields) ELSE EmptyAutomaton
          /\ ac_initialized' = ac_ok
          /\ ac_built' = IF ac_ok THEN BuiltFrom(fields) ELSE NoCorpus
          /\ sim_fields' = IF \E i \in 1..Len(fields) : ~HasAttr(fields[i], "is_enabled")
                           THEN sim_fields ELSE EnabledFields(fields)
          /\ search_corpus' = IF sim_ok THEN BuiltCorpus(fields) ELSE search_corpus
          /\ sim_initialized' = sim_ok
          /\ sim_built' = IF sim_ok THEN BuiltFrom(fields) ELSE NoCorpus
          /\ api_local' = [api_local EXCEPT ![t].success_count =
                              @ + (IF ac_ok THEN 1 ELSE 0) + (IF sim_ok THEN 1 ELSE 0)]
    /\ SetApiPc(t, "init_finish")
    /\ UNCHANGED <<bpc, bfields, bterms, ac_answer, sim_seen, sim_answer>>
    /\ UNCHANGED <<hybrid_searcher, initialization_attempted, data_sync_scheduler,
                   loop_owner, api_result, rebuilds, cold_start,
                   create_succeeded, probe_found_all>>
    /\ UNCHANGED <<hsVars, callVars, indexVars, syncVars>>

(* hybrid_searcher.py 87-90: self.initialized = success_count > 0, which   *)
(* is the success of create_index_with_data (line 459).                    *)
InitFinish(t) ==
    /\ api_pc[t] = "init_finish"
    /\ initialized' = (api_local[t].success_count > 0)
    /\ IF api_local[t].success_count > 0
       THEN /\ api_result' = [api_result EXCEPT ![t] = "rebuilt"]
            /\ SetApiPc(t, "dimension_create")
       ELSE /\ api_result' = [api_result EXCEPT ![t] = "failed"]
            /\ SetApiPc(t, "create_return")
    /\ UNCHANGED <<weights, es_health>>
    /\ UNCHANGED <<hybrid_searcher, initialization_attempted, data_sync_scheduler,
                   loop_owner, api_local, rebuilds, cold_start,
                   create_succeeded, probe_found_all>>
    /\ UNCHANGED <<engineVars, buildVars, callVars, indexVars, syncVars>>

(* hybrid_searcher.py 468-500: create_dimension_values_index(False) keeps  *)
(* an index that exists; the extraction is skipped when it has documents   *)
(* or when the index could not be created.                                 *)
InitDimensionCreate(t, ok) ==
    /\ api_pc[t] = "dimension_create"
    /\ ~api_local[t].force
    /\ IF dimension_index.exists
       THEN /\ SetApiPc(t, IF Answerable(dimension_index)
                           THEN "create_return" ELSE "dimension_extract")
            /\ UNCHANGED dimension_index
       ELSE IF ok
            THEN /\ dimension_index' = CreatedIndex
                 /\ SetApiPc(t, "dimension_extract")
            ELSE /\ SetApiPc(t, "create_return")
                 /\ UNCHANGED dimension_index
    /\ UNCHANGED <<fields_index, metric_index>>
    /\ UNCHANGED <<hybrid_searcher, initialization_attempted, data_sync_scheduler,
                   loop_owner, api_local, api_result, rebuilds, cold_start,
                   create_succeeded, probe_found_all>>
    /\ UNCHANGED <<hsVars, engineVars, buildVars, callVars, syncVars>>

(* hybrid_searcher.py 503-523: extract_all_dimension_values(fields) and    *)
(* the bulk of what it found.                                              *)
InitDimensionExtract(t, docs) ==
    /\ api_pc[t] = "dimension_extract"
    /\ dimension_index' = IF dimension_index.exists
                          THEN BulkInto(dimension_index, docs)
                          ELSE dimension_index
    /\ SetApiPc(t, "create_return")
    /\ UNCHANGED <<fields_index, metric_index>>
    /\ UNCHANGED <<hybrid_searcher, initialization_attempted, data_sync_scheduler,
                   loop_owner, api_local, api_result, rebuilds, cold_start,
                   create_succeeded, probe_found_all>>
    /\ UNCHANGED <<hsVars, engineVars, buildVars, callVars, syncVars>>

(* The return of create_index_with_data to its caller: get_hybrid_searcher *)
(* logs the result and goes on (search_api.py 192-213);                    *)
(* ensure_searcher_ready returns the success (search_api.py 262-267) and   *)
(* the handler body leaves the event loop; the handler of /index/create   *)
(* keeps the result and goes on to the metrics (search_api.py 551-560).    *)
CreateReturn(t) ==
    /\ api_pc[t] = "create_return"
    /\ IF api_local[t].caller = "ghs"
       THEN /\ SetApiPc(t, "ghs_scheduler")
            /\ api_result' = [api_result EXCEPT ![t] = "none"]
            /\ api_local' = [api_local EXCEPT ![t] = NoLocals]
            /\ UNCHANGED loop_owner
       ELSE IF api_local[t].caller = "manual"
       THEN /\ SetApiPc(t, "metric_index")
            /\ UNCHANGED <<api_result, api_local, loop_owner>>
       ELSE /\ SetApiPc(t, "done")
            /\ api_result' = [api_result EXCEPT ![t] =
                                 IF @ = "failed" THEN "not_ready" ELSE "ready"]
            /\ api_local' = [api_local EXCEPT ![t] = NoLocals]
            /\ loop_owner' = NoThread
    /\ create_succeeded' = (create_succeeded \/ api_result[t] \in {"rebuilt", "skipped"})
    /\ UNCHANGED <<hybrid_searcher, initialization_attempted, data_sync_scheduler,
                   rebuilds, cold_start, probe_found_all>>
    /\ UNCHANGED <<hsVars, engineVars, buildVars, callVars, indexVars, syncVars>>

(* The handler of POST /index/create, search_api.py 529-552, as its body   *)
(* takes the event loop: searcher.create_index_with_data with the          *)
(* request's force_recreate, which skips the probe of lines 393-442.       *)
ManualCreate(t, force) ==
    /\ api_pc[t] = "body"
    /\ loop_owner = NoThread
    /\ loop_owner' = t
    /\ api_local' = [api_local EXCEPT ![t] =
                        [NoLocals EXCEPT !.caller = "manual", !.force = force]]
    /\ rebuilds' = IF force THEN rebuilds + 1 ELSE rebuilds
    /\ SetApiPc(t, IF force THEN "create_load" ELSE "create_probe")
    /\ UNCHANGED <<hybrid_searcher, initialization_attempted, data_sync_scheduler,
                   api_result, cold_start, create_succeeded, probe_found_all>>
    /\ UNCHANGED <<hsVars, engineVars, buildVars, callVars, indexVars, syncVars>>

(* create_index(force=True), elasticsearch_engine.py 110-205: an index     *)
(* that exists is deleted; when the service fails (ok = FALSE) create_index *)
(* returns False and initialize skips the bulk.                            *)
InitEsDelete(t, ok) ==
    /\ api_pc[t] = "init_es_check"
    /\ api_local[t].force
    /\ IF ok
       THEN /\ fields_index' = MissingIndex
            /\ SetApiPc(t, "init_es_create")
       ELSE /\ SetApiPc(t, "init_engines")
            /\ UNCHANGED fields_index
    /\ UNCHANGED <<dimension_index, metric_index>>
    /\ UNCHANGED <<hybrid_searcher, initialization_attempted, data_sync_scheduler,
                   loop_owner, api_local, api_result, rebuilds, cold_start,
                   create_succeeded, probe_found_all>>
    /\ UNCHANGED <<hsVars, engineVars, buildVars, callVars, syncVars>>

(* create_dimension_values_index(True), elasticsearch_engine.py 306-309:   *)
(* an index that exists is deleted; a failure ends the dimension part.     *)
InitDimensionDelete(t, ok) ==
    /\ api_pc[t] = "dimension_create"
    /\ api_local[t].force
    /\ IF ok
       THEN /\ dimension_index' = MissingIndex
            /\ SetApiPc(t, "dimension_make")
       ELSE /\ SetApiPc(t, "create_return")
            /\ UNCHANGED dimension_index
    /\ UNCHANGED <<fields_index, metric_index>>
    /\ UNCHANGED <<hybrid_searcher, initialization_attempted, data_sync_scheduler,
                   loop_owner, api_local, api_result, rebuilds, cold_start,
                   create_succeeded, probe_found_all>>
    /\ UNCHANGED <<hsVars, engineVars, buildVars, callVars, syncVars>>

(* elasticsearch_engine.py 311-318: es.indices.create, which raises when   *)
(* the service fails or the index exists by now; with force_recreate the   *)
(* extraction follows a created index (hybrid_searcher.py 475, 502).       *)
InitDimensionMake(t, ok) ==
    /\ api_pc[t] = "dimension_make"
    /\ IF ok /\ ~dimension_index.exists
       THEN /\ dimension_index' = CreatedIndex
            /\ SetApiPc(t, "dimension_extract")
       ELSE /\ SetApiPc(t, "create_return")
            /\ UNCHANGED dimension_index
    /\ UNCHANGED <<fields_index, metric_index>>
    /\ UNCHANGED <<hybrid_searcher, initialization_attempted, data_sync_scheduler,
                   loop_owner, api_local, api_result, rebuilds, cold_start,
                   create_succeeded, probe_found_all>>
    /\ UNCHANGED <<hsVars, engineVars, buildVars, callVars, syncVars>>

(* create_and_load_metrics, hybrid_searcher.py 653-700, and                *)
(* initialize_metrics, 584-590: no metric ends the call; otherwise         *)
(* create_metric_index(force) keeps an index that exists unless forced,    *)
(* and deletes and creates it otherwise.  A failure ends the call.         *)
ManualMetricIndex(t, docs, ok) ==
    /\ api_pc[t] = "metric_index"
    /\ IF docs = {}
       THEN /\ SetApiPc(t, "manual_return")
            /\ UNCHANGED metric_index
       ELSE IF metric_index.exists /\ ~api_local[t].force
       THEN /\ SetApiPc(t, "metric_bulk")
            /\ UNCHANGED metric_index
       ELSE IF ok
       THEN /\ metric_index' = CreatedIndex
            /\ SetApiPc(t, "metric_bulk")
       ELSE /\ SetApiPc(t, "manual_return")
            /\ UNCHANGED metric_index
    /\ UNCHANGED <<fields_index, dimension_index>>
    /\ UNCHANGED <<hybrid_searcher, initialization_attempted, data_sync_scheduler,
                   loop_owner, api_local, api_result, rebuilds, cold_start,
                   create_succeeded, probe_found_all>>
    /\ UNCHANGED <<hsVars, engineVars, buildVars, callVars, syncVars>>

(* initialize_metrics, hybrid_searcher.py 592-601: bulk_index_metrics.     *)
ManualMetricBulk(t, ok) ==
    /\ api_pc[t] = "metric_bulk"
    /\ metric_index' = IF ok /\ metric_index.exists
                       THEN BulkInto(metric_index, NewMetricDocs)
                       ELSE metric_index
    /\ SetApiPc(t, "manual_return")
    /\ UNCHANGED <<fields_index, dimension_index>>
    /\ UNCHANGED <<hybrid_searcher, initialization_attempted, data_sync_scheduler,
                   loop_owner, api_local, api_result, rebuilds, cold_start,
                   create_succeeded, probe_found_all>>
    /\ UNCHANGED <<hsVars, engineVars, buildVars, callVars, syncVars>>

(* search_api.py 578-587: _initialization_attempted = False, and the       *)
(* IndexResponse carries the success of create_index_with_data; the body   *)
(* leaves the event loop.                                                  *)
ManualReturn(t) ==
    /\ api_pc[t] = "manual_return"
    /\ initialization_attempted' = FALSE
    /\ api_result' = [api_result EXCEPT ![t] =
                         IF @ = "failed" THEN "not_created" ELSE "created"]
    /\ api_local' = [api_local EXCEPT ![t] = NoLocals]
    /\ loop_owner' = NoThread
    /\ SetApiPc(t, "done")
    /\ UNCHANGED <<hybrid_searcher, data_sync_scheduler, rebuilds, cold_start,
                   create_succeeded, probe_found_all>>
    /\ UNCHANGED <<hsVars, engineVars, buildVars, callVars, indexVars, syncVars>>

(* The indices a process can find at its start.                            *)
StartIndices(old) == {MissingIndex, CreatedIndex, LoadedIndex(old)}

(* A process that has served no request: search_api.py 91-93 and           *)
(* HybridSearcher.__init__.                                                *)
InitLifecycle ==
    /\ weights = DefaultWeights
    /\ initialized = FALSE
    /\ es_health = "up"
    /\ automaton = NoAutomaton
    /\ ac_initialized = FALSE
    /\ sim_fields = <<>>
    /\ search_corpus = <<>>
    /\ sim_initialized = FALSE
    /\ bpc = "idle"
    /\ bfields = <<>>
    /\ bterms = <<>>
    /\ ac_built = NoCorpus
    /\ sim_built = NoCorpus
    /\ ac_answer = NoAnswer
    /\ sim_seen = NoScan
    /\ sim_answer = NoSimAnswer
    /\ fields_index \in StartIndices(OldFieldDocs)
    /\ dimension_index \in StartIndices(OldDimensionDocs)
    /\ metric_index \in StartIndices(OldMetricDocs)
    /\ SchedulerAtRest
    /\ hybrid_searcher = 0
    /\ initialization_attempted = FALSE
    /\ data_sync_scheduler = 0
    /\ cold_start = (~Answerable(fields_index) /\ ~Answerable(dimension_index)
                     /\ ~Answerable(metric_index))
    /\ create_succeeded = FALSE
    /\ probe_found_all = FALSE
    /\ NoRequests
    /\ request = [search_method |-> "hybrid", size |-> 1]
    /\ spc = "idle"
    /\ pending = {}
    /\ search_results = <<>>
    /\ used_methods = <<>>
    /\ response = NoResponse

(* The steps of one request.                                                *)
LifecycleStep(t) ==
    \/ RequestStart(t)
    \/ GhsNew(t)
    \/ GhsAttempt(t)
    \/ GhsSet(t)
    \/ \E ok \in BOOLEAN : GhsProbe(t, ok)
    \/ GhsScheduler(t)
    \/ GhsSchedulerNew(t)
    \/ \E ok \in BOOLEAN : EnsureProbe(t, ok)
    \/ \E ok \in BOOLEAN : CreateProbe(t, ok)
    \/ \E fields \in LoadedFields : CreateLoad(t, fields)
    \/ InitEsCheck(t)
    \/ \E ok \in BOOLEAN : InitEsCreate(t, ok)
    \/ \E ok \in BOOLEAN : InitBulk(t, ok)
    \/ InitEngines(t)
    \/ InitFinish(t)
    \/ \E ok \in BOOLEAN : InitDimensionCreate(t, ok)
    \/ \E docs \in {{}, NewDimensionDocs} : InitDimensionExtract(t, docs)
    \/ CreateReturn(t)

NextLifecycle == \E t \in RequestThreads : LifecycleStep(t)

SpecLifecycle == InitLifecycle /\ [][NextLifecycle]_vars

(* The same process when the second of its requests may also be           *)
(* POST /index/create.                                                     *)
ManualRequests == {"r2"}

NextManual ==
    \/ NextLifecycle
    \/ \E t \in ManualRequests, force \in BOOLEAN : ManualCreate(t, force)
    \/ \E t \in RequestThreads, ok \in BOOLEAN : InitEsDelete(t, ok)
    \/ \E t \in RequestThreads, ok \in BOOLEAN : InitDimensionDelete(t, ok)
    \/ \E t \in RequestThreads, ok \in BOOLEAN : InitDimensionMake(t, ok)
    \/ \E t \in RequestThreads, docs \in {{}, NewMetricDocs}, ok \in BOOLEAN :
           ManualMetricIndex(t, docs, ok)
    \/ \E t \in RequestThreads, ok \in BOOLEAN : ManualMetricBulk(t, ok)
    \/ \E t \in RequestThreads : ManualReturn(t)

SpecManual == InitLifecycle /\ [][NextManual]_vars

(* C1: when the requests of a process whose searcher is not initialized    *)
(* and whose three indices are absent or empty run their readiness checks  *)
(* concurrently, the full rebuild of create_index_with_data is started at  *)
(* most once in total.                                                     *)
C1_OneRebuild == cold_start => rebuilds <= 1

(* C10: a step of one of the lifecycle probes (get_hybrid_searcher,        *)
(* ensure_searcher_ready, the skip check of create_index_with_data) sets   *)
(* initialized to True only when the fields, dimension values and metrics  *)
(* indices all exist with at least one document.                           *)
C10_ReadyOnlyWithAllThree ==
    [][(/\ \E t \in RequestThreads, ok \in BOOLEAN :
              GhsProbe(t, ok) \/ EnsureProbe(t, ok) \/ CreateProbe(t, ok)
        /\ ~initialized
        /\ initialized')
       => AllThreeReady]_vars

-----------------------------------------------------------------------------
(* Properties of a sync run and of its result, under SpecSync.             *)

SubSyncs == {"metadata", "dimension_values", "metrics"}

(* The call ran the sync body to its end: it is about to return, or has    *)
(* returned, the results of lines 162-237.                                 *)
RunComplete(t) ==
    \/ sync_pc[t] = "finish"
    \/ sync_pc[t] = "returned" /\ sync_results[t].message = ""

(* C11: the lock is held, and is_syncing is True, only while a call is     *)
(* inside the sync body; with no call executing the lock is free and       *)
(* is_syncing is False, whatever failed in the runs before.                *)
C11_LockReleasedOnEveryExit ==
    /\ sync_lock # NoThread => sync_lock \in SyncThreads /\ InBody(sync_lock)
    /\ is_syncing => \E t \in SyncThreads : InBody(t)
    /\ (\A t \in SyncThreads : sync_pc[t] \in {"idle", "returned"})
          => sync_lock = NoThread /\ ~is_syncing

(* C11 witness: a run whose sub-syncs failed has returned, and the next    *)
(* call has acquired the lock and is running.                              *)
C11_Witness ==
    \E t, u \in SyncThreads :
        /\ t # u
        /\ sync_pc[t] = "returned"
        /\ sync_results[t].errors = {"metadata", "metrics"}
        /\ sync_pc[u] = "metadata"
        /\ sync_lock = u

(* C12: a run that reaches its end has attempted each of the three         *)
(* sub-syncs, whatever the other sub-syncs of the run reported.            *)
C12_EverySubSyncAttempted ==
    \A t \in SyncThreads :
        sync_pc[t] = "finish" => \A part \in SubSyncs : sync_results[t][part] # "none"

(* C13: in the result of a complete run, success is True exactly when the  *)
(* three sub-syncs reported success, and a result whose success is False   *)
(* has an error message for each sub-sync that failed, and for no other.   *)
C13_AggregateSuccess ==
    \A t \in SyncThreads :
        RunComplete(t) =>
            /\ sync_results[t].success
                  <=> \A part \in SubSyncs : sync_results[t][part] = "ok"
            /\ ~sync_results[t].success => sync_results[t].errors # {}
            /\ sync_results[t].errors
                  = {part \in SubSyncs : sync_results[t][part] = "fail"}

(* C13 witness: a run has returned in which the metadata and metrics       *)
(* sub-syncs succeeded and the dimension values sub-sync failed.           *)
C13_Witness ==
    \E t \in SyncThreads :
        /\ sync_pc[t] = "returned"
        /\ sync_results[t].metadata = "ok"
        /\ sync_results[t].metrics = "ok"
        /\ sync_results[t].errors = {"dimension_values"}
        /\ ~sync_results[t].success

(* C20: a sync_data(force=False) call whose step finds another run in the  *)
(* sync body does not enter the body and changes neither                   *)
(* last_sync_status, the indices nor the engines; the call that is turned  *)
(* away holds success=False and ran no sub-sync, and its only next step is *)
(* to become free for a later call.                                        *)
C20_BusyFireIsSkipped ==
    [][\A t \in SyncThreads :
          /\ (/\ \E u \in SyncThreads : u # t /\ InBody(u)
              /\ SyncCall(t, FALSE) \/ (SyncAcquire(t) /\ ~sync_force[t]))
             => /\ sync_pc'[t] \in {"acquire", "returned"}
                /\ SyncAcquire(t) => sync_pc'[t] = "returned"
                /\ sync_pc'[t] = "returned" =>
                      /\ ~sync_results'[t].success
                      /\ \A part \in SubSyncs : sync_results'[t][part] = "none"
                /\ UNCHANGED <<last_sync_status, fields_data, indexVars, engineVars>>
          /\ TurnedAway(t) => sync_pc'[t] \in {"returned", "idle"}]_vars

(* C20 witness: a fire with force=False has been turned away while another *)
(* run is inside the body, and last_sync_status is still the one of the    *)
(* previous run.                                                           *)
C20_Witness ==
    \E t, u \in SyncThreads :
        /\ t # u
        /\ TurnedAway(t) /\ ~sync_force[t]
        /\ sync_results[t].message = "syncing"
        /\ InBody(u)
        /\ last_sync_status = "failed"

-----------------------------------------------------------------------------
(* The hybrid dispatch under fair scheduling.  The dispatcher's own step   *)
(* is taken when it can be, and the two in-memory engines return; the call *)
(* of the search service is given no fairness: it may never return.        *)
(* _hybrid_search has no step for a deadline: as_completed (line 176) is   *)
(* called without a timeout and yields finished futures only, on which     *)
(* result(timeout=30) (line 179) returns at once.                          *)

InMemoryEngines == {"ac_matcher", "similarity"}

SpecSearchLive ==
    /\ InitSearch
    /\ [][NextSearch]_vars
    /\ WF_vars(HybridRespond)
    /\ \A engine_name \in InMemoryEngines :
          WF_vars(EngineComplete(engine_name) \/ EngineRaise(engine_name))

(* C14: a hybrid search that has submitted its engine calls completes,     *)
(* with a response, even when the call of one engine never returns.        *)
C14_DispatchCompletes == (spc = "collect") ~> (spc = "done")

-----------------------------------------------------------------------------
(* Further properties of the in-memory engines, under SpecEngine.          *)

(* No ACMatcher.initialize is between its first and its last statement.    *)
ACAtRest == bpc \notin {"ac_terms", "ac_add", "ac_set"}

(* The same corpus as the last complete build is being built again.        *)
SecondBuild(corpus) == corpus.built /\ corpus.fields = bfields /\ bfields # <<>>

(* C15: an in-memory engine that was built answers as a function of the    *)
(* corpus of its last complete build alone, however many times and after   *)
(* whatever other corpora it was built: a second build of the same corpus  *)
(* ends in the automaton and the search_corpus the first build left, and   *)
(* every query on the built engine gets the response (results, scores and  *)
(* order) that the corpus determines.  (ac_answer changes to an answer in  *)
(* the steps of ACSearch only.)                                            *)
C15_BuildIsIdempotent ==
    /\ [](/\ (bpc = "ac_set" /\ SecondBuild(ac_built))
                => automaton = BuiltAutomaton(ac_built.fields)
          /\ (bpc = "sim_append" /\ bterms = <<>> /\ SecondBuild(sim_built))
                => search_corpus = CorpusOf(sim_built))
    /\ [][/\ (ACAtRest /\ ac_built.built /\ ac_answer' # ac_answer /\ ac_answer' # NoAnswer)
                => ac_answer'.response
                       = ACAnswerFrom(ac_built, ac_answer'.query, ac_answer'.table_name,
                                      ac_answer'.size)
          /\ (SimSearch /\ ~SimBuilding /\ sim_built.built)
                => sim_seen'.ready /\ sim_seen'.items = CorpusOf(sim_built)]_vars

(* C15 witness: SimilarityMatcher.initialize has appended the last item of *)
(* a corpus of two entities that the previous complete build also held,    *)
(* and ACMatcher.initialize has finished a second time on that corpus.     *)
C15_Witness ==
    /\ bpc = "sim_append" /\ bterms = <<>>
    /\ SecondBuild(sim_built) /\ SecondBuild(ac_built)
    /\ Len(bfields) = 2
    /\ automaton = BuiltAutomaton(bfields)

-----------------------------------------------------------------------------
(* Queries against built in-memory engines: both engines hold one          *)
(* completed initialize(fields), and search_fields calls follow.           *)

(* The entity of table orders, column status, named "ab", with one alias.  *)
FieldStatus(alias) == EngineField("orders", "status", "ab", <<alias>>, "", <<>>, TRUE)

(* An entity whose name is the ten-character string.                       *)
FieldLong == EngineField("t1", "c1", "abcdefghij", <<>>, "", <<>>, TRUE)

Aliases == {"b", "xab", "status"}

QueryCorpora ==
    { <<FieldStatus(alias)>> : alias \in Aliases }
    \cup { <<FieldLong>>, <<FieldLong, FieldStatus("b")>>, <<FieldAb, FieldB>> }

QueryTexts == {"a", "b", "xab", "status", "z"}

QueryTables == {NoTable, OneTable("orders"), TableList(<<"orders", "t1">>)}

InitQuery ==
    /\ weights = DefaultWeights
    /\ initialized = FALSE
    /\ es_health = "up"
    /\ \E fields \in QueryCorpora :
          /\ automaton = BuiltAutomaton(fields)
          /\ sim_fields = EnabledFields(fields)
          /\ search_corpus = BuiltCorpus(fields)
          /\ ac_built = BuiltFrom(fields)
          /\ sim_built = BuiltFrom(fields)
    /\ ac_initialized = TRUE
    /\ sim_initialized = TRUE
    /\ bpc = "idle"
    /\ bfields = <<>>
    /\ bterms = <<>>
    /\ ac_answer = NoAnswer
    /\ sim_seen = NoScan
    /\ sim_answer = NoSimAnswer
    /\ IndicesLoaded
    /\ SchedulerAtRest
    /\ ApiAtRest
    /\ request = [search_method |-> "hybrid", size |-> 1]
    /\ spc = "idle"
    /\ pending = {}
    /\ search_results = <<>>
    /\ used_methods = <<>>
    /\ response = NoResponse

NextQuery ==
    \/ \E query \in QueryTexts, table_name \in QueryTables, size \in EngineSizes :
           ACSearch(query, table_name, size)
    \/ \E query \in QueryTexts, table_name \in QueryTables, size \in EngineSizes,
          use_tokenization \in BOOLEAN :
           SimilaritySearch(query, table_name, size, use_tokenization)

SpecQuery == InitQuery /\ [][NextQuery]_vars

-----------------------------------------------------------------------------
(* Properties of the answers, under SpecQuery.                             *)

(* The scores of the pattern occurrences of one entity in the query.       *)
OccurrenceScores(answer, result) ==
    LET matches == ACMatches(automaton.words, answer.query, answer.table_name, FALSE, TRUE)
    IN { matches[i].score : i \in { k \in 1..Len(matches) :
             /\ matches[k].field.table_name = result.table_name
             /\ matches[k].field.column_name = result.column_name } }

(* C16: an Exact-Match answer holds at most one result per entity, with    *)
(* the score of the entity's highest-scoring occurrence in the query; and  *)
(* on the corpus of the single entity orders.status with the one alias A,  *)
(* the query A is answered by exactly one result, that entity, matched     *)
(* through the alias class.                                                *)
C16_OneResultPerEntity ==
    ac_answer # NoAnswer =>
        LET results == ac_answer.response.results
        IN /\ \A i, j \in 1..Len(results) :
                  (/\ results[i].table_name = results[j].table_name
                   /\ results[i].column_name = results[j].column_name) => i = j
           /\ \A i \in 1..Len(results) :
                  \A score \in OccurrenceScores(ac_answer, results[i]) :
                      score <= results[i].score
           /\ \A alias \in Aliases :
                  (ac_built.fields = <<FieldStatus(alias)>> /\ ac_answer.query = alias) =>
                      /\ Len(results) = 1
                      /\ results[1].table_name = "orders"
                      /\ results[1].column_name = "status"
                      /\ results[1].match_type = "alias"

(* The fraction equals n/d.                                                *)
RatIs(score, n, d) == score.n * d = n * score.d

ShortQueryOnLong ==
    /\ sim_answer # NoSimAnswer
    /\ sim_built.fields = <<FieldLong>>
    /\ sim_answer.query = "a"
    /\ sim_answer.table_name = NoTable

NoResultAtFloor ==
    sim_answer # NoSimAnswer =>
        \A i \in 1..Len(sim_answer.response.results) :
            RatGreater(sim_answer.response.results[i].score, Rat(1, 10))

-----------------------------------------------------------------------------
(* Further properties of readiness and of the rebuild, under               *)
(* SpecLifecycle.                                                          *)

(* C18: once a create_index_with_data(force_recreate=False) call has       *)
(* returned success, a further such call whose probe the service answers   *)
(* takes the skip path: it returns success, starts no load of the source   *)
(* data, and leaves the three indices as they were.                        *)
C18_LaterCallsSkip ==
    [][\A t \in RequestThreads :
           (create_succeeded /\ CreateProbe(t, TRUE)) =>
               /\ api_result'[t] = "skipped"
               /\ rebuilds' = rebuilds
               /\ UNCHANGED indexVars]_vars

(* C19: with searcher.initialized True, ensure_searcher_ready returns True *)
(* whatever the search service would answer, starts no rebuild and leaves  *)
(* the searcher, the engines and the indices unchanged.                    *)
C19_ReadyIsNoOp ==
    [][\A t \in RequestThreads, ok \in BOOLEAN :
           (initialized /\ EnsureProbe(t, ok)) =>
               /\ api_result'[t] = "ready"
               /\ api_pc'[t] = "done"
               /\ loop_owner' = loop_owner
               /\ rebuilds' = rebuilds
               /\ UNCHANGED <<hsVars, engineVars, indexVars>>]_vars

(* Both requests were answered ready with no document in the fields index  *)
(* and after one rebuild only: a readiness check returned on the           *)
(* initialized flag alone.                                                 *)
C19_Witness ==
    /\ initialized
    /\ ~Answerable(fields_index)
    /\ rebuilds = 1
    /\ \A t \in RequestThreads : api_pc[t] = "done" /\ api_result[t] = "ready"

-----------------------------------------------------------------------------
(* Further properties of the merger, under SpecSearch.                     *)

(* The hits the engines of this search have returned so far: <<position   *)
(* of the engine in search_results, position of the hit in its results>>.  *)
EngineHits ==
    {<<a, b>> \in (1..Len(search_results)) \X (1..MaxHits) :
        b <= Len(search_results[a].response.results)}

HitOf(p) == search_results[p[1]].response.results[p[2]]

(* The weight the configuration gives an engine: 10 * weight, 10 when the  *)
(* engine has none.                                                        *)
ConfiguredWeight(engine_name) ==
    IF engine_name \in DOMAIN weights THEN weights[engine_name] ELSE 10

WeightedHit(p) == HitOf(p).score * ConfiguredWeight(search_results[p[1]].engine)

(* C22: every entry of the merged output carries the greatest weighted     *)
(* score (raw score times configured weight) among the hits of its entity  *)
(* identity, names an engine that attains it, and records that engine's    *)
(* raw score and weight.                                                   *)
C22_BestWeightedPerIdentity ==
    \A i \in 1..Len(Merged) :
        /\ \A p \in EngineHits :
               Identity(HitOf(p)) = Identity(Merged[i]) => WeightedHit(p) <= Merged[i].score
        /\ \E p \in EngineHits :
               /\ Identity(HitOf(p)) = Identity(Merged[i])
               /\ WeightedHit(p) = Merged[i].score
               /\ search_results[p[1]].engine = Merged[i].search_method
               /\ Merged[i].extra_info.original_score = HitOf(p).score
               /\ Merged[i].extra_info.engine_weight
                      = ConfiguredWeight(search_results[p[1]].engine)

(* C22 witness: a finished hybrid search in which an engine that completed *)
(* later returned the same entity with a greater weighted score.           *)
C22_Witness ==
    /\ HybridDone
    /\ \E p, q \in EngineHits :
          /\ p[1] < q[1]
          /\ Identity(HitOf(p)) = Identity(HitOf(q))
          /\ WeightedHit(p) < WeightedHit(q)

(* The engines' results of this search in the order of the engines dict.   *)
InEngineOrder(results_by_engine) ==
    LET at(engine_name) == SelectSeq(results_by_engine,
                                     LAMBDA item : item.engine = engine_name)
    IN at(Engines[1]) \o at(Engines[2]) \o at(Engines[3])

(* C23: the response of a finished hybrid search is the one the engines'   *)
(* results give when taken in the fixed order of the engines dict: the     *)
(* order in which the engine calls completed changes neither the order of  *)
(* the entries nor the engine recorded for each.                           *)
C23_TieBrokenByEngineOrder ==
    HybridDone =>
        response.results =
            Truncate(merge_search_results(InEngineOrder(search_results), weights),
                     request.size)

(* C29: two hits with different (table_name, column_name) have different   *)
(* de-duplication keys, and every entity identity an engine returned is    *)
(* in the merged output.                                                   *)
C29_DistinctIdentitiesKept ==
    /\ \A p, q \in EngineHits :
           Identity(HitOf(p)) # Identity(HitOf(q)) => field_key(HitOf(p)) # field_key(HitOf(q))
    /\ \A p \in EngineHits :
           \E i \in 1..Len(Merged) : Identity(Merged[i]) = Identity(HitOf(p))

-----------------------------------------------------------------------------
(* The table filter of the in-memory engines, under SpecQuery.             *)

(* The table is the given name, or is in the given list.                   *)
InFilter(table, table_name) ==
    CASE table_name.kind = "none" -> TRUE
      [] table_name.kind = "str"  -> table = table_name.names[1]
      [] table_name.kind = "list" -> \E i \in 1..Len(table_name.names) :
                                         table = table_name.names[i]

Restricted(results, table_name) ==
    SelectSeq(results, LAMBDA result : InFilter(result.table_name, table_name))

(* The same query without a table filter.                                  *)
ACUnfiltered ==
    ac_search_fields(automaton, ac_initialized, ac_answer.query, NoTable, ac_answer.size)

SimUnfiltered ==
    sim_search_fields(search_corpus, sim_initialized, sim_answer.query, NoTable,
                      sim_answer.size, sim_answer.use_tokenization)

ACFilterIsRestriction ==
    (ac_answer # NoAnswer /\ ACUnfiltered.total <= ac_answer.size) =>
        ac_answer.response.results = Restricted(ACUnfiltered.results, ac_answer.table_name)

SimFilterIsRestriction ==
    (sim_answer # NoSimAnswer /\ SimUnfiltered.total <= sim_answer.size) =>
        sim_answer.response.results = Restricted(SimUnfiltered.results, sim_answer.table_name)

(* C30: for each in-memory engine, the results of a query filtered by a    *)
(* table name or by a list of table names are the results of the same      *)
(* unfiltered query restricted to the entities whose table is the name or  *)
(* is in the list (compared where the size truncates nothing).             *)
C30_FilterIsRestriction == ACFilterIsRestriction /\ SimFilterIsRestriction

-----------------------------------------------------------------------------
(* Further properties of the requests, under SpecLifecycle and SpecManual.  *)

(* The positions of a call inside HybridSearcher.create_index_with_data.   *)
CreatePositions ==
    {"create_probe", "create_load", "init_es_check", "init_es_create", "init_bulk",
     "init_engines", "init_finish", "dimension_create", "dimension_make",
     "dimension_extract", "create_return"}

InCreate(t, caller) == api_pc[t] \in CreatePositions /\ api_local[t].caller = caller

(* C21: the first-use initialization of get_hybrid_searcher and the manual *)
(* rebuild of POST /index/create are never inside                          *)
(* HybridSearcher.create_index_with_data at the same time.                 *)
C21_BuildsExcludeEachOther ==
    \A t, u \in RequestThreads : ~(InCreate(t, "ghs") /\ InCreate(u, "manual"))

(* C26: whatever the interleaving of the first requests, at most one       *)
(* HybridSearcher and at most one DataSyncScheduler are ever created.      *)
C26_OneSearcherOneScheduler == hybrid_searcher <= 1 /\ data_sync_scheduler <= 1

-----------------------------------------------------------------------------
(* Further properties of the scheduler, under SpecSync.                    *)

FailedSubSyncs(t) == {part \in SubSyncs : sync_results[t][part] = "fail"}

C27_EnginesShareOneLoad ==
    (/\ \A t \in SyncThreads : sync_pc[t] \in {"idle", "returned"}
     /\ bpc = "idle"
     /\ fields_data # <<>>)
        => /\ ac_built = BuiltFrom(fields_data)
           /\ sim_built = BuiltFrom(fields_data)

(* C28: a _sync_metadata that has returned success True has left a fields  *)
(* index that exists, has indexed at least one field, and both             *)
(* initialize calls built their engine from the loaded fields.             *)
C28_SuccessMeansRebuilt ==
    \A t \in SyncThreads :
        (sync_pc[t] = "dimensions" /\ sync_results[t].metadata = "ok") =>
            /\ fields_index.exists
            /\ sync_results[t].fields_indexed > 0
            /\ ac_initialized /\ ac_built = BuiltFrom(sync_fields[t])
            /\ sim_initialized /\ sim_built = BuiltFrom(sync_fields[t])

-----------------------------------------------------------------------------
(* The first search of a process.  The handler search_fields,             *)
(* search_api.py 311-330, calls searcher.search once                       *)
(* ensure_searcher_ready has returned True; HybridSearcher.search and the  *)
(* engines it calls read the engines and write none of their fields.       *)
FirstSearch(t, method, size) ==
    /\ api_pc[t] = "done"
    /\ api_result[t] = "ready"
    /\ SearchCall(method, size)

(* The process serves one request, a search.                               *)
FirstRequest == "r1"

NextFirstSearch ==
    \/ LifecycleStep(FirstRequest)
    \/ \E method \in SearchMethods, size \in Sizes : FirstSearch(FirstRequest, method, size)
    \/ \E engine_name \in EngineNames : EngineComplete(engine_name)
    \/ \E engine_name \in EngineNames : EngineRaise(engine_name)
    \/ HybridRespond

SpecFirstSearch == InitLifecycle /\ [][NextFirstSearch]_vars

(* C25: when the probe of get_hybrid_searcher found the three indices with *)
(* data, both in-memory engines are initialized once the first search      *)
(* request has completed.                                                  *)
C25_EnginesBuiltByFirstSearch ==
    (probe_found_all /\ spc = "done") => (ac_initialized /\ sim_initialized)

=============================================================================
